---- MODULE Spec2Model ----
(***************************************************************************)
(* The Signal: the per-frame simulation core (GameEngine.update, Player,   *)
(* EnemyManager, save/load) as a state machine.                            *)
(*                                                                         *)
(* Units.  Time is counted in tenths of a second (performance.now()/100),  *)
(* distance in quarter units, madness in steps of 0.0005, battery in steps *)
(* of 0.2 percent, so that every rate and threshold of the source is an    *)
(* integer: fireRate 0.3 s = 3, reloadTime 2 s = 20, attackCooldown 1.5 s  *)
(* = 15, soundMemoryDuration 5 s = 50, maxMadness 1.0 = 2000,              *)
(* maxBattery 100 = 500.                                                   *)
(*                                                                         *)
(* Horizontal positions are points of a line.  The player's horizontal     *)
(* motion and the enemies' physics bodies are integrated by floating point *)
(* code (and by the cannon-es world); the model draws the resulting        *)
(* positions from small sets instead of integrating them.                  *)
(***************************************************************************)
EXTENDS Integers, Sequences, FiniteSets, TLC

VARIABLES now, engine, player, story, enemies, active, inactive,
          soundEvents, timers, saveSlot, gen, projectiles, log

vars == <<now, engine, player, story, enemies, active, inactive,
          soundEvents, timers, saveSlot, gen, projectiles, log>>

-----------------------------------------------------------------------------
(* Bounds of the model *)

MaxTime == 26
AttackTime == 112
VitalsTime == 64
SoundTime == 255
SessionTime == 6000
PoolSize == 2
MaxGen == 1
CrowdSize == 11
CrowdTime == 88
MaxProjectiles == 2
HitTime == 40
MaxHits == 3
DeathTime == 56
FsmTime == 156
BandTime == 64
EmitTime == 204
MaxEmits == 3
DespawnTime == 40
OverTime == 60
PauseTime == 70
TimersTime == 60

-----------------------------------------------------------------------------
(* Program constants *)

maxHealth == 100
maxBattery == 500
maxMadness == 2000
clipSize == 10
maxAmmo == 30
fireRate == 3
reloadTime == 20
batteryLow == 50
damageMadness == 200
jumpForce == 12
gravityPerTick == 3
groundY == 20
attackCooldown == 15
soundMemoryDuration == 50
maxSoundEvents == 10
maxActiveEnemies == 10
spawnDistance == 120
spawnMinDistance == 40
despawnDistance == 200
loseInterestDistance == 140
patrolTimeout == 100
investigateTimeout == 50
deathDelay == 20
cutsceneDuration == 50
gameOverDelay == 30
signalTriggerDistance == 40
distressSignalTime == 300
volumeRange == 8
PLAYER_GROUP == 1
ENEMY_GROUP == 2
WORLD_GROUP == 4
PICKUP_GROUP == 8
PROJECTILE_GROUP == 16
projectileLifetime == 50

Min(a, b) == IF a < b THEN a ELSE b
Max(a, b) == IF a > b THEN a ELSE b
Abs(a) == IF a < 0 THEN -a ELSE a
Dist(a, b) == Abs(a - b)

EnemyTypeNames == {"infected_scientist", "corrupted_soldier", "signal_entity"}

(* enemy types that leave attack as soon as the player is out of the       *)
(* attack range *)
enemyTypesNoBand ==
  [t \in EnemyTypeNames |->
     CASE t = "infected_scientist" ->
            [health |-> 80, detectionRange |-> 60, attackRange |-> 8,
             leaveRange |-> 8, attackDamage |-> 15]
       [] t = "corrupted_soldier" ->
            [health |-> 120, detectionRange |-> 80, attackRange |-> 12,
             leaveRange |-> 12, attackDamage |-> 25]
       [] t = "signal_entity" ->
            [health |-> 60, detectionRange |-> 100, attackRange |-> 6,
             leaveRange |-> 6, attackDamage |-> 20]]

enemyTypes ==
  [t \in EnemyTypeNames |->
     CASE t = "infected_scientist" ->
            [health |-> 80, detectionRange |-> 60, attackRange |-> 8,
             leaveRange |-> 12, attackDamage |-> 15]
       [] t = "corrupted_soldier" ->
            [health |-> 120, detectionRange |-> 80, attackRange |-> 12,
             leaveRange |-> 18, attackDamage |-> 25]
       [] t = "signal_entity" ->
            [health |-> 60, detectionRange |-> 100, attackRange |-> 6,
             leaveRange |-> 9, attackDamage |-> 20]]

-----------------------------------------------------------------------------
(* Player *)

NoKeys == [shoot |-> FALSE, reload |-> FALSE, sprint |-> FALSE,
           crouch |-> FALSE, jump |-> FALSE, flashlight |-> FALSE]

PlayerInit ==
  [health |-> maxHealth, isDead |-> FALSE,
   madness |-> 0, battery |-> maxBattery, flashlightOn |-> TRUE,
   clip |-> clipSize, ammo |-> maxAmmo, lastFired |-> 0,
   isReloading |-> FALSE, reloadStartTime |-> 0,
   isSprinting |-> FALSE, isCrouching |-> FALSE,
   isGrounded |-> TRUE, canJump |-> TRUE, y |-> groundY, vy |-> 0,
   pos |-> 0]

(* handleMovement without the canJump latch *)
handleMovementNoLatch(p, k) ==
  LET jumping == k.jump /\ p.isGrounded
      p1 == [p EXCEPT !.isSprinting = k.sprint /\ p.isGrounded,
                      !.isCrouching = k.crouch]
  IN IF jumping
     THEN [p1 EXCEPT !.vy = jumpForce, !.isGrounded = FALSE]
     ELSE p1

(* Player.handleMovement: sprint / crouch flags and the jump latch *)
handleMovement(p, k) ==
  LET jumping == k.jump /\ p.isGrounded /\ p.canJump
      p1 == [p EXCEPT !.isSprinting = k.sprint /\ p.isGrounded,
                      !.isCrouching = k.crouch]
      p2 == IF jumping
            THEN [p1 EXCEPT !.vy = jumpForce, !.isGrounded = FALSE,
                            !.canJump = FALSE]
            ELSE p1
  IN IF ~k.jump THEN [p2 EXCEPT !.canJump = TRUE] ELSE p2

(* TRUE iff handleShooting fires a round in this tick *)
firesWeapon(p, k, t) ==
  /\ ~p.isReloading
  /\ k.shoot
  /\ t - p.lastFired >= fireRate
  /\ p.clip > 0

(* handleShooting with an empty click that restarts the fire cooldown *)
handleShootingCostly(p, k, t) ==
  IF p.isReloading THEN p
  ELSE IF k.shoot /\ t - p.lastFired >= fireRate
       THEN IF p.clip > 0
            THEN [p EXCEPT !.lastFired = t, !.clip = p.clip - 1]
            ELSE [p EXCEPT !.lastFired = t]
       ELSE p

(* Player.handleShooting *)
handleShooting(p, k, t) ==
  IF p.isReloading THEN p
  ELSE IF k.shoot /\ t - p.lastFired >= fireRate
       THEN IF p.clip > 0
            THEN [p EXCEPT !.lastFired = t, !.clip = p.clip - 1]
            ELSE p
       ELSE p

(* Player.startReloading *)
startReloading(p, t) ==
  [p EXCEPT !.isReloading = TRUE, !.reloadStartTime = t]

(* a finishReloading that always fills the clip *)
finishReloadingFull(p) ==
  LET ammoNeeded == clipSize - p.clip
  IN [p EXCEPT !.clip = clipSize,
               !.ammo = Max(0, p.ammo - ammoNeeded),
               !.isReloading = FALSE]

(* Player.finishReloading *)
finishReloading(p) ==
  LET ammoNeeded == clipSize - p.clip
      ammoToLoad == Min(ammoNeeded, p.ammo)
  IN [p EXCEPT !.clip = p.clip + ammoToLoad,
               !.ammo = p.ammo - ammoToLoad,
               !.isReloading = FALSE]

(* handleReloading with a reload request that restarts a running reload *)
handleReloadingRestart(p, k, t) ==
  IF p.isReloading /\ ~k.reload
  THEN IF t - p.reloadStartTime >= reloadTime THEN finishReloading(p) ELSE p
  ELSE IF k.reload /\ p.clip < clipSize /\ p.ammo > 0
       THEN startReloading(p, t)
       ELSE p

(* Player.handleReloading *)
handleReloading(p, k, t) ==
  IF p.isReloading
  THEN IF t - p.reloadStartTime >= reloadTime THEN finishReloading(p) ELSE p
  ELSE IF k.reload /\ p.clip < clipSize /\ p.ammo > 0
       THEN startReloading(p, t)
       ELSE p

(* Player.handleFlashlight / toggleFlashlight *)
handleFlashlight(p, k) ==
  IF k.flashlight THEN [p EXCEPT !.flashlightOn = ~p.flashlightOn] ELSE p

(* Player.updateMadness; getDistanceToSignal() is the constant 50, so the *)
(* proximity term never contributes *)
updateMadness(p, d) ==
  LET dark == IF ~p.flashlightOn \/ p.battery < batteryLow THEN 2 ELSE 0
      sprint == IF p.isSprinting THEN 1 ELSE 0
      raw == p.madness + (dark + sprint - 1) * d
  IN [p EXCEPT !.madness = Max(0, Min(maxMadness, raw))]

(* Player.updateBattery *)
updateBattery(p, d) ==
  IF p.flashlightOn
  THEN [p EXCEPT !.battery = Max(0, p.battery - d)]
  ELSE p

(* Player.updatePhysics: vertical motion and the ground test; the          *)
(* horizontal position that results is the input np *)
updatePhysics(p, d, np) ==
  LET vy1 == IF ~p.isGrounded THEN p.vy - gravityPerTick * d ELSE p.vy
      y1 == p.y + vy1 * d
  IN IF y1 <= groundY
     THEN [p EXCEPT !.y = groundY, !.vy = 0, !.isGrounded = TRUE, !.pos = np]
     ELSE [p EXCEPT !.y = y1, !.vy = vy1, !.isGrounded = FALSE, !.pos = np]

(* TRUE iff Player.update gives the player the jump impulse               *)
(* (velocity.y = jumpForce) under the keys k *)
jumpImpulse(p, k) == ~p.isDead /\ handleMovement(p, k).vy = jumpForce

(* Player.update *)
playerUpdate(p, k, d, t, np) ==
  IF p.isDead THEN p
  ELSE updatePhysics(
         updateBattery(
           updateMadness(
             handleFlashlight(
               handleReloading(
                 handleShooting(handleMovement(p, k), k, t), k, t), k), d), d),
         d, np)

(* a takeDamage that never sets isDead *)
takeDamageSurvivable(p, amount) ==
  [p EXCEPT !.health = Max(0, p.health - amount),
            !.madness = Min(maxMadness, p.madness + damageMadness)]

(* takeDamage without the clamp of the health at 0 *)
takeDamageUnclamped(p, amount) ==
  LET h == p.health - amount
  IN [p EXCEPT !.health = h,
               !.isDead = IF h <= 0 THEN TRUE ELSE p.isDead,
               !.madness = Min(maxMadness, p.madness + damageMadness)]

(* Player.takeDamage *)
takeDamage(p, amount) ==
  LET h == Max(0, p.health - amount)
  IN [p EXCEPT !.health = h,
               !.isDead = IF h <= 0 THEN TRUE ELSE p.isDead,
               !.madness = Min(maxMadness, p.madness + damageMadness)]

(* Player.heal *)
heal(p, amount) ==
  [p EXCEPT !.health = Min(maxHealth, p.health + amount)]

(* Player.reset *)
playerReset(p) ==
  [p EXCEPT !.health = maxHealth, !.isDead = FALSE,
            !.battery = maxBattery, !.madness = 0,
            !.clip = clipSize, !.ammo = maxAmmo,
            !.pos = 0, !.y = groundY, !.vy = 0]

(* Player.getSaveData *)
playerGetSaveData(p) ==
  [pos |-> p.pos, y |-> p.y, health |-> p.health, battery |-> p.battery,
   madness |-> p.madness,
   weapon |-> [clip |-> p.clip, ammo |-> p.ammo, lastFired |-> p.lastFired,
               isReloading |-> p.isReloading,
               reloadStartTime |-> p.reloadStartTime]]

(* Player.loadSaveData *)
playerLoadSaveData(p, s) ==
  [p EXCEPT !.pos = s.pos, !.y = s.y, !.health = s.health,
            !.battery = s.battery, !.madness = s.madness,
            !.clip = s.weapon.clip, !.ammo = s.weapon.ammo,
            !.lastFired = s.weapon.lastFired,
            !.isReloading = s.weapon.isReloading,
            !.reloadStartTime = s.weapon.reloadStartTime]

-----------------------------------------------------------------------------
(* Enemies *)

NoPoint == 9999

Ids == 1..Max(PoolSize * (MaxGen + 1), CrowdSize)

(* the pool instances created by createEnemyPool in generation g *)
PoolIds(g) == (g * PoolSize + 1)..((g + 1) * PoolSize)

Slot(id) == ((id - 1) % PoolSize) + 1

(* EnemyManager.createEnemy and createEnemyMesh; bodyPos is the position of *)
(* the enemy's body in the physics world, added at the enemy's position;   *)
(* hitAt and prevHitAt are history fields: the times of the instance's     *)
(* last two damage applications, -1 if none *)
createEnemy(typeName) ==
  [type |-> typeName, health |-> enemyTypes[typeName].health,
   isAlive |-> TRUE, isActive |-> FALSE, pos |-> 0, bodyPos |-> 0,
   facing |-> 1, state |-> "idle", stateTimer |-> 0, lastAttackTime |-> 0,
   detectionLevel |-> 0, investigationPoint |-> NoPoint, hitAt |-> -1,
   prevHitAt |-> -1]

(* an instance that does not exist (not created yet, or unreachable) *)
NoEnemy == [createEnemy("infected_scientist") EXCEPT !.type = "none"]

Sgn(a) == IF a > 0 THEN 1 ELSE IF a < 0 THEN -1 ELSE 0

(* EnemyManager.canEnemySeePlayer: range test and the field-of-view dot    *)
(* product of the direction to the player with the facing vector *)
canEnemySeePlayer(e, p) ==
  IF Dist(e.pos, p.pos) > enemyTypes[e.type].detectionRange THEN FALSE
  ELSE Sgn(p.pos - e.pos) * e.facing * 2 > 1

(* no age test: every event still in the list counts *)
soundIsListed(s, t) == TRUE

(* the age test applied to a sound event by canEnemyHearPlayer and by      *)
(* updateSoundEvents *)
soundIsRecent(s, t) == t - s.timestamp < soundMemoryDuration

(* EnemyManager.canEnemyHearPlayer *)
canEnemyHearPlayer(e, sounds, t) ==
  \E i \in 1..Len(sounds) :
     /\ soundIsRecent(sounds[i], t)
     /\ Dist(sounds[i].pos, e.pos) < enemyTypes[e.type].detectionRange

(* a cooldown test that forgets the previous attack *)
attackDueSinceEntry(e) == e.stateTimer > attackCooldown

(* the cooldown test of the attack state *)
attackDue(e) == e.stateTimer - e.lastAttackTime > attackCooldown

(* TRUE iff updateAIState calls performAttack for e *)
attacks(e, p) ==
  /\ e.state = "attack"
  /\ ~(Dist(e.pos, p.pos) > enemyTypes[e.type].leaveRange)
  /\ attackDue(e)

(* the player is at least attackRange and at most 1.5 x attackRange away   *)
(* from the enemy *)
InBand(e, p) ==
  /\ e.type \in EnemyTypeNames
  /\ Dist(e.pos, p.pos) >= enemyTypes[e.type].attackRange
  /\ 2 * Dist(e.pos, p.pos) <= 3 * enemyTypes[e.type].attackRange

(* EnemyManager.updateAIState: the new enemy record; the damage of an      *)
(* attack is applied by updateEnemy *)
updateAIState(e, p, sounds, t, rnd) ==
  LET d == Dist(e.pos, p.pos)
      see == canEnemySeePlayer(e, p)
      hear == canEnemyHearPlayer(e, sounds, t)
      cfg == enemyTypes[e.type]
  IN CASE e.state = "idle" ->
            IF see \/ hear
            THEN [e EXCEPT !.state = "investigate",
                           !.investigationPoint = p.pos]
            ELSE IF rnd THEN [e EXCEPT !.state = "patrol"] ELSE e
       [] e.state = "patrol" ->
            IF see THEN [e EXCEPT !.state = "chase"]
            ELSE IF hear
                 THEN [e EXCEPT !.state = "investigate",
                                !.investigationPoint = p.pos]
                 ELSE IF e.stateTimer > patrolTimeout
                      THEN [e EXCEPT !.state = "idle", !.stateTimer = 0]
                      ELSE e
       [] e.state = "investigate" ->
            IF see THEN [e EXCEPT !.state = "chase"]
            ELSE IF d < cfg.attackRange
                 THEN [e EXCEPT !.state = "attack"]
                 ELSE IF e.stateTimer > investigateTimeout
                      THEN [e EXCEPT !.state = "patrol", !.stateTimer = 0]
                      ELSE e
       [] e.state = "chase" ->
            IF ~see /\ ~hear /\ d > loseInterestDistance
            THEN [e EXCEPT !.state = "investigate",
                           !.investigationPoint = p.pos]
            ELSE IF d < cfg.attackRange
                 THEN [e EXCEPT !.state = "attack"]
                 ELSE e
       [] e.state = "attack" ->
            IF d > cfg.leaveRange
            THEN [e EXCEPT !.state = "chase"]
            ELSE IF attackDue(e)
                 THEN [e EXCEPT !.lastAttackTime = e.stateTimer, !.hitAt = t,
                                !.prevHitAt = e.hitAt]
                 ELSE e
       [] OTHER -> e

(* direction an enemy faces after moveTowards / attackBehavior aimed at a  *)
(* target: atan2 of the normalised direction, which is 0 for a zero vector *)
FaceTowards(e, target) ==
  IF target - e.pos < 0 THEN -1 ELSE 1

(* EnemyManager.executeStateBehavior, applyMovement and                    *)
(* PhysicsManager.updateEnemy: the facing by state; the position is        *)
(* overwritten with the physics body's position (body); face is the        *)
(* direction of the random patrol target or of the scanning rotation *)
executeStateBehavior(e, p, face, body) ==
  LET f == CASE e.state = "patrol" -> face
             [] e.state = "investigate" ->
                  IF e.investigationPoint # NoPoint THEN face ELSE e.facing
             [] e.state \in {"chase", "attack"} -> FaceTowards(e, p.pos)
             [] OTHER -> e.facing
  IN [e EXCEPT !.facing = f, !.pos = body]

(* EnemyManager.performAttack *)
performAttack(e, p) == takeDamage(p, enemyTypes[e.type].attackDamage)

RemoveAt(seq, i) == SubSeq(seq, 1, i - 1) \o SubSeq(seq, i + 1, Len(seq))

IndexOf(seq, x) ==
  IF \E i \in 1..Len(seq) : seq[i] = x
  THEN CHOOSE i \in 1..Len(seq) :
         seq[i] = x /\ \A j \in 1..(i - 1) : seq[j] # x
  ELSE 0

(* The operations of the enemy manager work on a loop state: the enemy     *)
(* records, the two lists, the player, and the record of the damage        *)
(* applications made so far (hits: attackers in order; deadHits:           *)
(* applications to an already dead player).                                *)

(* EnemyManager.despawnEnemy *)
despawnEnemy(st, id) ==
  IF ~st.en[id].isActive THEN st
  ELSE LET k == IndexOf(st.act, id)
       IN [st EXCEPT !.en[id].isActive = FALSE,
                     !.en[id].state = "idle",
                     !.act = IF k > 0 THEN RemoveAt(st.act, k) ELSE st.act,
                     !.inact = Append(st.inact, id)]

(* a spawnEnemy that, when the pool is empty, takes the first active enemy *)
spawnEnemyRecycling(st, sp) ==
  IF Len(st.inact) = 0 /\ Len(st.act) = 0 THEN st
  ELSE LET id == IF Len(st.inact) = 0 THEN st.act[1]
                 ELSE st.inact[Len(st.inact)]
       IN [st EXCEPT !.inact = IF Len(st.inact) = 0 THEN st.inact
                               ELSE SubSeq(st.inact, 1, Len(st.inact) - 1),
                     !.en[id].pos = sp,
                     !.en[id].state = "patrol",
                     !.en[id].isActive = TRUE,
                     !.en[id].health = enemyTypes[st.en[id].type].health,
                     !.en[id].detectionLevel = 0,
                     !.act = IF Len(st.inact) = 0
                             THEN Append(Tail(st.act), id)
                             ELSE Append(st.act, id)]

(* EnemyManager.spawnEnemy; sp is the spawn point's position *)
spawnEnemy(st, sp) ==
  IF Len(st.inact) = 0 THEN st
  ELSE LET id == st.inact[Len(st.inact)]
       IN [st EXCEPT !.inact = SubSeq(st.inact, 1, Len(st.inact) - 1),
                     !.en[id].pos = sp,
                     !.en[id].state = "patrol",
                     !.en[id].isActive = TRUE,
                     !.en[id].health = enemyTypes[st.en[id].type].health,
                     !.en[id].detectionLevel = 0,
                     !.act = Append(st.act, id)]

(* an updateEnemy that evaluates the AI state machine twice *)
updateEnemyTwice(st, id, d, sounds, t, ein) ==
  LET e == st.en[id]
  IN IF ~e.isAlive \/ ~e.isActive THEN st
     ELSE LET e1 == [e EXCEPT !.stateTimer = e.stateTimer + d]
              hit == attacks(e1, st.p)
              e2 == updateAIState(
                      updateAIState(e1, st.p, sounds, t, ein.rnd[Slot(id)]),
                      st.p, sounds, t, ein.rnd[Slot(id)])
              p2 == IF hit THEN performAttack(e1, st.p) ELSE st.p
              e3 == executeStateBehavior(e2, p2, ein.face[Slot(id)],
                                         e2.bodyPos)
          IN [st EXCEPT !.en[id] = e3, !.p = p2,
                        !.hits = IF hit THEN Append(st.hits, id) ELSE st.hits,
                        !.deadHits = IF hit /\ st.p.isDead
                                     THEN st.deadHits + 1 ELSE st.deadHits]

(* EnemyManager.updateEnemy *)
updateEnemy(st, id, d, sounds, t, ein) ==
  LET e == st.en[id]
  IN IF ~e.isAlive \/ ~e.isActive THEN st
     ELSE LET e1 == [e EXCEPT !.stateTimer = e.stateTimer + d]
              hit == attacks(e1, st.p)
              e2 == updateAIState(e1, st.p, sounds, t, ein.rnd[Slot(id)])
              p2 == IF hit THEN performAttack(e1, st.p) ELSE st.p
              e3 == executeStateBehavior(e2, p2, ein.face[Slot(id)],
                                         e2.bodyPos)
          IN [st EXCEPT !.en[id] = e3, !.p = p2,
                        !.hits = IF hit THEN Append(st.hits, id) ELSE st.hits,
                        !.deadHits = IF hit /\ st.p.isDead
                                     THEN st.deadHits + 1 ELSE st.deadHits]

(* the body of the loop of EnemyManager.update for index i, then the       *)
(* indices below it *)
RECURSIVE enemyLoop(_, _, _, _, _, _)
enemyLoop(st, i, d, sounds, t, ein) ==
  IF i < 1 THEN st
  ELSE LET id == st.act[i]
           s1 == updateEnemy(st, id, d, sounds, t, ein)
           s2 == IF Dist(s1.en[id].pos, s1.p.pos) > despawnDistance
                 THEN despawnEnemy(s1, id)
                 ELSE s1
       IN enemyLoop(s2, i - 1, d, sounds, t, ein)

(* PhysicsManager.update: world.step moves the bodies of the world; body    *)
(* gives the position each enemy body has after the step *)
physicsUpdate(en, body) ==
  [id \in Ids |->
     IF en[id].type = "none" THEN en[id]
     ELSE [en[id] EXCEPT !.bodyPos = body[Slot(id)]]]

(* EnemyManager.updateSoundEvents *)
updateSoundEvents(sounds, t) ==
  SelectSeq(sounds, LAMBDA s : soundIsRecent(s, t))

(* an alert that adds to detectionLevel without the cap at 1 *)
alertNearbyEnemiesUncapped(en, act, position, range) ==
  [id \in Ids |->
     IF (\E i \in 1..Len(act) : act[i] = id)
        /\ Dist(en[id].pos, position) < range
     THEN LET dist == Dist(en[id].pos, position)
              lvl == en[id].detectionLevel + ((range - dist) * 500) \div range
          IN IF en[id].state = "idle"
             THEN [en[id] EXCEPT !.detectionLevel = lvl,
                                 !.state = "investigate",
                                 !.investigationPoint = position]
             ELSE [en[id] EXCEPT !.detectionLevel = lvl]
     ELSE en[id]]

(* EnemyManager.alertNearbyEnemies on the enemy records *)
alertNearbyEnemies(en, act, position, range) ==
  [id \in Ids |->
     IF (\E i \in 1..Len(act) : act[i] = id)
        /\ Dist(en[id].pos, position) < range
     THEN LET dist == Dist(en[id].pos, position)
              lvl == Min(1000, en[id].detectionLevel
                                 + ((range - dist) * 500) \div range)
          IN IF en[id].state = "idle"
             THEN [en[id] EXCEPT !.detectionLevel = lvl,
                                 !.state = "investigate",
                                 !.investigationPoint = position]
             ELSE [en[id] EXCEPT !.detectionLevel = lvl]
     ELSE en[id]]

(* EnemyManager.registerSoundEvent: the new list of sound events *)
registerSoundEvent(sounds, position, volume, t) ==
  LET s1 == Append(sounds, [pos |-> position, volume |-> volume,
                            timestamp |-> t])
  IN IF Len(s1) > maxSoundEvents THEN Tail(s1) ELSE s1

-----------------------------------------------------------------------------
(* Story manager and engine *)

NoSound == [pos |-> NoPoint, volume |-> 0]
NoSave == [present |-> FALSE]

SpawnPoints == {60, -100}

StoryInit ==
  [storyProgress |-> 0, distressSignalHeard |-> FALSE,
   signalSourceLocated |-> FALSE, transmitterFound |-> FALSE,
   finalChoiceMade |-> FALSE]

EngineInit ==
  [isPlaying |-> FALSE, isPaused |-> FALSE, gameTime |-> 0, deltaTime |-> 0]

(* the record of the last step: the operation, its inputs, and what        *)
(* happened inside it that the state alone does not show; bus is the list  *)
(* of sound events that the enemies' perception was evaluated on,          *)
(* nonFinite the quantities that the step has left NaN or infinite, spawn  *)
(* what became of the spawn of the tick ("none": no spawnEnemy call,       *)
(* "null": spawnEnemy returned null, "spawned"), preSpawn the active and   *)
(* inactive lists when updateSpawning was called, pair the kinds of two    *)
(* bodies whose collision filter was evaluated and collides its result,    *)
(* jump the level of the jump key, jumped whether the tick gave the jump   *)
(* impulse, held whether the jump key has been down in every tick since    *)
(* the last jump impulse, failed the subsystem whose update threw in the   *)
(* tick, ran the subsystems whose update ran, checked whether              *)
(* checkGameState was evaluated *)
Log(op, keys, sound, hits, deadHits, ending, heard) ==
  [op |-> op, shoot |-> keys.shoot, reload |-> keys.reload,
   sprint |-> keys.sprint, crouch |-> keys.crouch, jump |-> keys.jump,
   jumped |-> FALSE, held |-> FALSE, failed |-> "none", ran |-> {},
   checked |-> FALSE, sound |-> sound,
   hits |-> hits, deadHits |-> deadHits, ending |-> ending, heard |-> heard,
   bus |-> <<>>, nonFinite |-> {}, spawn |-> "none", preSpawn |-> <<>>,
   pair |-> <<>>, collides |-> FALSE, entered |-> {}, waited |-> <<>>,
   band |-> {}, userPaused |-> FALSE, reloadGameTime |-> 0]

PlainLog(op) == Log(op, NoKeys, NoSound, <<>>, 0, "none", FALSE)

(* the timer that StoryManager.triggerCutscene schedules to resume *)
ResumeTimer(t) == [kind |-> "resume", due |-> t + cutsceneDuration,
                   id |-> 0, reason |-> "none"]

(* a despawn timer that does not become due within a session *)
DespawnTimerLate(id, t) == [kind |-> "despawn", due |-> t + SessionTime,
                            id |-> id, reason |-> "none"]

(* the timer that EnemyManager.enemyDie schedules to despawn *)
DespawnTimer(id, t) == [kind |-> "despawn", due |-> t + deathDelay,
                        id |-> id, reason |-> "none"]

(* the timer of StoryManager.endGame / handlePlayerDeath; its id is a      *)
(* history field: the number of new games started before it was scheduled *)
GameOverTimer(reason, t) == [kind |-> "gameOver", due |-> t + gameOverDelay,
                             id |-> gen, reason |-> reason]

(* StoryManager.isStoryComplete is called by checkGameState but defined    *)
(* nowhere in the sources; it is taken to be the completion test of        *)
(* checkStoryProgress *)
isStoryComplete(s) == s.transmitterFound /\ s.finalChoiceMade

(* GameEngine.checkGameState: the ending selected, "none" if none *)
checkGameState(p, s) ==
  IF p.isDead THEN "death"
  ELSE IF isStoryComplete(s) THEN "completion"
  ELSE IF p.madness >= maxMadness THEN "insanity"
  ELSE "none"

(* StoryManager.update: updateStoryProgress and checkStoryTriggers; the    *)
(* progress counter is only compared with distressSignalTime and is kept   *)
(* saturated just above it *)
storyUpdate(s, p, d) ==
  LET prog == Min(distressSignalTime + 1, s.storyProgress + d)
      distress == prog > distressSignalTime /\ ~s.distressSignalHeard
      signal == Dist(p.pos, 0) < signalTriggerDistance
                /\ ~s.signalSourceLocated
  IN [story |-> [s EXCEPT !.storyProgress = prog,
                          !.distressSignalHeard = @ \/ distress,
                          !.signalSourceLocated = @ \/ signal],
      cutscene |-> distress \/ signal]

(* EnemyManager.updateSpawning: the spawn points inside the spawn band *)
nearbySpawnPoints(p) ==
  {sp \in SpawnPoints : Dist(sp, p.pos) < spawnDistance
                        /\ Dist(sp, p.pos) > spawnMinDistance}

(* EnemyManager.updateSpawning without the test of the number of active    *)
(* enemies *)
updateSpawningUncapped(st, sp) ==
  IF nearbySpawnPoints(st.p) = {} THEN st ELSE spawnEnemy(st, sp)

(* EnemyManager.updateSpawning; sp is the spawn point drawn among those    *)
(* near *)
updateSpawning(st, sp) ==
  IF Len(st.act) >= maxActiveEnemies \/ nearbySpawnPoints(st.p) = {}
  THEN st
  ELSE spawnEnemy(st, sp)

(* EnemyManager.getSaveData *)
enemyGetSaveData(en, act) ==
  [i \in 1..Len(act) |->
     [id |-> act[i], type |-> en[act[i]].type, pos |-> en[act[i]].pos,
      health |-> en[act[i]].health, state |-> en[act[i]].state]]

(* the snapshot written by GameEngine.saveGame *)
Snapshot ==
  [present |-> TRUE, gameTime |-> engine.gameTime,
   playerState |-> playerGetSaveData(player),
   enemyState |-> enemyGetSaveData(enemies, active),
   storyState |-> story]

LoopState(en, act, inact, p) ==
  [en |-> en, act |-> act, inact |-> inact, p |-> p,
   hits |-> <<>>, deadHits |-> 0]

(* the first loop of EnemyManager.loadSaveData: activeEnemies.forEach      *)
(* despawns while despawnEnemy splices the array under the iteration, so   *)
(* index k visits what is then at position k *)
RECURSIVE despawnForEach(_, _)
despawnForEach(st, k) ==
  IF k > Len(st.act) THEN st
  ELSE despawnForEach(despawnEnemy(st, st.act[k]), k + 1)

-----------------------------------------------------------------------------
(* Actions *)

(* the state after construction of the engine and its managers, the pool   *)
(* of enemy types drawn from T *)
InitWith(T) ==
  /\ now = 0
  /\ engine = EngineInit
  /\ player = PlayerInit
  /\ story = StoryInit
  /\ \E ty \in [PoolIds(0) -> T] :
        enemies = [id \in Ids |-> IF id \in PoolIds(0)
                                  THEN createEnemy(ty[id]) ELSE NoEnemy]
  /\ active = <<>>
  /\ inactive = [i \in 1..PoolSize |-> i]
  /\ soundEvents = <<>>
  /\ timers = {}
  /\ saveSlot = NoSave
  /\ gen = 0
  /\ projectiles = <<>>
  /\ log = PlainLog("init")

Init == InitWith(EnemyTypeNames)

(* a state in the middle of a session: the game is playing, the opening    *)
(* cutscene at the signal source has been shown, and the player's vitals   *)
(* and weapon are one of the reachable combinations in P, the previous     *)
(* frame's deltaTime one of D *)
MidGame(P, T, D) ==
  /\ now = 0
  /\ \E d \in D : engine = [EngineInit EXCEPT !.isPlaying = TRUE,
                                               !.deltaTime = d]
  /\ player \in P
  /\ story = [StoryInit EXCEPT !.signalSourceLocated = TRUE]
  /\ \E ty \in [PoolIds(0) -> T] :
        enemies = [id \in Ids |-> IF id \in PoolIds(0)
                                  THEN createEnemy(ty[id]) ELSE NoEnemy]
  /\ active = <<>>
  /\ inactive = [i \in 1..PoolSize |-> i]
  /\ soundEvents = <<>>
  /\ timers = {}
  /\ saveSlot = NoSave
  /\ gen = 0
  /\ projectiles = <<>>
  /\ log = PlainLog("init")

TimersDue == {tm \in timers : tm.due <= now}

(* the subsystems with modelled state that GameEngine.update updates, in   *)
(* the order of the calls *)
Phases == <<"player", "enemies", "physics", "story">>

(* GameEngine.update(deltaTime) at time t on the player p, the enemy       *)
(* records en, the lists act and inact, the sound events and the story s:  *)
(* the results of the managers' updates in the order of the calls, and the *)
(* ending checkGameState selects *)
TickResult(p, en, act, inact, sounds, s, in, t) ==
  LET p1 == playerUpdate(p, in.keys, in.d, t, in.np)
      emit == in.sound # NoSound
      sounds1 == IF emit
                 THEN registerSoundEvent(sounds, in.sound.pos,
                                         in.sound.volume, t)
                 ELSE sounds
      en1 == IF emit
             THEN alertNearbyEnemies(en, act, in.sound.pos,
                                     in.sound.volume * volumeRange)
             ELSE en
      sounds2 == updateSoundEvents(sounds1, t)
      st1 == enemyLoop(LoopState(en1, act, inact, p1), Len(act),
                       in.d, sounds2, t, in)
      near == nearbySpawnPoints(st1.p)
      st2 == updateSpawning(st1, in.sp)
      st3 == [st2 EXCEPT !.en = physicsUpdate(st2.en, in.body)]
      su == storyUpdate(s, st3.p, in.d)
  IN [st |-> st3, sounds |-> sounds2, su |-> su, near |-> near,
      afterPlayer |-> p1, prePhysics |-> st2,
      ending |-> checkGameState(st3.p, su.story),
      spawn |-> IF Len(st1.act) >= maxActiveEnemies \/ near = {} THEN "none"
                ELSE IF Len(st1.inact) = 0 THEN "null" ELSE "spawned",
      preSpawn |-> <<st1.act, st1.inact>>]

(* GameEngine.update(deltaTime) at time t on the current state *)
UpdateResult(in, t) ==
  TickResult(player, enemies, active, inactive, soundEvents, story, in, t)

(* GameEngine.update(deltaTime) at time t, called by the game loop; the    *)
(* spawn point in.sp is the one updateSpawning draws among those near *)
EngineUpdate(in, t) ==
  \E r \in {UpdateResult(in, t)} :
     /\ (r.near # {} => in.sp \in r.near)
     /\ player' = r.st.p
     /\ enemies' = r.st.en
     /\ active' = r.st.act
     /\ inactive' = r.st.inact
     /\ soundEvents' = r.sounds
     /\ story' = r.su.story
     /\ engine' = [engine EXCEPT
                     !.deltaTime = in.d,
                     !.gameTime = engine.gameTime + in.d,
                     !.isPaused = IF r.su.cutscene THEN TRUE ELSE @,
                     !.isPlaying = IF r.ending # "none" THEN FALSE ELSE @]
     /\ timers' = IF r.su.cutscene THEN timers \cup {ResumeTimer(t)}
                  ELSE timers
     /\ log' = [Log("tick", in.keys, in.sound, r.st.hits, r.st.deadHits,
                    r.ending, FALSE) EXCEPT
                  !.bus = r.sounds,
                  !.spawn = r.spawn,
                  !.preSpawn = r.preSpawn,
                  !.ran = {Phases[j] : j \in 1..Len(Phases)},
                  !.checked = TRUE,
                  !.jumped = jumpImpulse(player, in.keys),
                  !.held = in.keys.jump /\ (jumpImpulse(player, in.keys)
                                            \/ log.held),
                  !.entered = {id \in DOMAIN enemies :
                                 /\ r.st.en[id].state = "investigate"
                                 /\ enemies[id].state # "investigate"},
                  !.reloadGameTime =
                     IF ~player.isReloading /\ r.st.p.isReloading
                     THEN engine.gameTime + in.d
                     ELSE log.reloadGameTime,
                  !.band = {id \in DOMAIN enemies :
                              /\ enemies[id].isActive /\ enemies[id].isAlive
                              /\ enemies[id].state \in {"attack", "chase"}
                              /\ InBand(enemies[id], r.st.p)},
                  !.waited = [id \in DOMAIN enemies |->
                                IF /\ enemies[id].state = "attack"
                                   /\ r.st.en[id].state = "attack"
                                   /\ r.st.en[id].isActive
                                   /\ r.st.en[id].isAlive
                                   /\ r.st.en[id].hitAt # t
                                THEN in.d + (IF id \in DOMAIN log.waited
                                             THEN log.waited[id] ELSE 0)
                                ELSE 0]]
     /\ UNCHANGED <<saveSlot, gen,
                 projectiles>>

(* GameEngine.update(deltaTime) at time t when the update of the subsystem *)
(* Phases[k] throws on entry: update has no try / catch, so the exception   *)
(* leaves update (and main.js update) with the effects of the subsystems    *)
(* before it and without those after it or checkGameState; gameLoop has     *)
(* requested the next animation frame before *)
EngineUpdateThrows(in, t, k) ==
  \E r \in {UpdateResult(in, t)} :
     /\ (r.near # {} => in.sp \in r.near)
     /\ in.sound = NoSound
     /\ player' = IF k <= 1 THEN player
                  ELSE IF k = 2 THEN r.afterPlayer ELSE r.st.p
     /\ enemies' = IF k <= 2 THEN enemies
                   ELSE IF k = 3 THEN r.prePhysics.en ELSE r.st.en
     /\ active' = IF k <= 2 THEN active ELSE r.st.act
     /\ inactive' = IF k <= 2 THEN inactive ELSE r.st.inact
     /\ soundEvents' = IF k <= 2 THEN soundEvents ELSE r.sounds
     /\ engine' = [engine EXCEPT !.deltaTime = in.d,
                                 !.gameTime = engine.gameTime + in.d]
     /\ log' = [Log("tick", in.keys, in.sound,
                    IF k <= 2 THEN <<>> ELSE r.st.hits,
                    IF k <= 2 THEN 0 ELSE r.st.deadHits, "none", FALSE)
                  EXCEPT !.failed = Phases[k],
                         !.ran = {Phases[j] : j \in 1..(k - 1)}]
     /\ UNCHANGED <<story, timers, saveSlot, gen,
                 projectiles>>

(* an animation frame in which the update of a subsystem throws *)
FrameThrows(in, limit, k) ==
  /\ now + in.d <= limit
  /\ TimersDue = {}
  /\ engine.isPlaying /\ ~engine.isPaused
  /\ now' = now + in.d
  /\ EngineUpdateThrows(in, now + in.d, k)

(* a frame that updates the engine whatever its flags *)
FrameAlways(in, limit) ==
  /\ now + in.d <= limit
  /\ TimersDue = {}
  /\ now' = now + in.d
  /\ EngineUpdate(in, now + in.d)

(* one animation frame (gameLoop in main.js): in.d of real time has passed *)
(* since the previous frame; the engine is updated only while playing and  *)
(* not paused *)
Frame(in, limit) ==
  /\ now + in.d <= limit
  /\ TimersDue = {}
  /\ now' = now + in.d
  /\ IF engine.isPlaying /\ ~engine.isPaused
     THEN EngineUpdate(in, now + in.d)
     ELSE /\ in = [in EXCEPT !.keys = NoKeys, !.sound = NoSound]
          /\ log' = [PlainLog("idleFrame") EXCEPT
                        !.userPaused = log.userPaused,
                        !.reloadGameTime = log.reloadGameTime]
          /\ UNCHANGED <<engine, player, story, enemies, active, inactive,
                         soundEvents, timers, saveSlot, gen,
                 projectiles>>

(* EnemyManager.reset: the lists are replaced and a new pool is created;   *)
(* instances of the old pool stay reachable only through a pending        *)
(* despawn timer *)
enemyReset(en, g, ty, tms) ==
  [id \in Ids |->
     IF id \in PoolIds(g) THEN createEnemy(ty[Slot(id)])
     ELSE IF \E tm \in tms : tm.kind = "despawn" /\ tm.id = id
          THEN en[id]
          ELSE NoEnemy]

(* GameEngine.startNewGame; the call of storyManager.startStory, a method  *)
(* the sources do not define, ends the handler after the resets *)
StartNewGame ==
  /\ gen < MaxGen
  /\ \E ty \in [1..PoolSize -> EnemyTypeNames] :
        enemies' = enemyReset(enemies, gen + 1, ty, timers)
  /\ gen' = gen + 1
  /\ engine' = [engine EXCEPT !.isPlaying = TRUE, !.isPaused = FALSE,
                              !.gameTime = 0]
  /\ player' = playerReset(player)
  /\ active' = <<>>
  /\ inactive' = [i \in 1..PoolSize |-> (gen + 1) * PoolSize + i]
  /\ soundEvents' = <<>>
  /\ log' = PlainLog("startNewGame")
  /\ UNCHANGED <<now, story, timers, saveSlot,
                 projectiles>>

(* GameEngine.saveGame *)
SaveGame ==
  /\ engine.isPlaying
  /\ saveSlot' = Snapshot
  /\ log' = PlainLog("saveGame")
  /\ UNCHANGED <<now, engine, player, story, enemies, active, inactive,
                 soundEvents, timers, gen,
                 projectiles>>

(* GameEngine.loadGame with a snapshot in the slot.  EnemyManager          *)
(* .loadSaveData despawns, then for each saved enemy calls spawnEnemy with *)
(* a spawn point that has no patrolCenter: when the pool has an inactive   *)
(* instance, it is popped, positioned, and the copy of the undefined       *)
(* patrolCenter throws, which ends loadSaveData and loadGame *)
LoadGame ==
  /\ saveSlot.present
  /\ LET sv == saveSlot
         st0 == despawnForEach(LoopState(enemies, active, inactive, player), 1)
         throws == Len(sv.enemyState) > 0 /\ Len(st0.inact) > 0
         id == st0.inact[Len(st0.inact)]
     IN /\ player' = playerLoadSaveData(player, sv.playerState)
        /\ active' = st0.act
        /\ IF throws
           THEN /\ inactive' = SubSeq(st0.inact, 1, Len(st0.inact) - 1)
                /\ enemies' = [st0.en EXCEPT ![id].pos = sv.enemyState[1].pos]
                /\ engine' = [engine EXCEPT !.gameTime = sv.gameTime]
                /\ story' = story
           ELSE /\ inactive' = st0.inact
                /\ enemies' = st0.en
                /\ engine' = [engine EXCEPT !.isPlaying = TRUE,
                                             !.isPaused = FALSE,
                                             !.gameTime = sv.gameTime]
                /\ story' = sv.storyState
  /\ log' = PlainLog("loadGame")
  /\ UNCHANGED <<now, soundEvents, timers, saveSlot, gen,
                 projectiles>>

(* GameEngine.pause, from the Escape / P keys of handleKeyPress *)
Pause ==
  /\ engine.isPlaying
  /\ ~engine.isPaused
  /\ engine' = [engine EXCEPT !.isPaused = TRUE]
  /\ log' = [PlainLog("pause") EXCEPT
                !.userPaused = TRUE,
                !.reloadGameTime = log.reloadGameTime]
  /\ UNCHANGED <<now, player, story, enemies, active, inactive, soundEvents,
                 timers, saveSlot, gen,
                 projectiles>>

(* GameEngine.resume, from resumeGame *)
Resume ==
  /\ engine.isPaused
  /\ engine' = [engine EXCEPT !.isPaused = FALSE]
  /\ log' = [PlainLog("resume") EXCEPT
                !.reloadGameTime = log.reloadGameTime]
  /\ UNCHANGED <<now, player, story, enemies, active, inactive, soundEvents,
                 timers, saveSlot, gen,
                 projectiles>>

(* a setTimeout callback that is due *)
FireTimer ==
  \E tm \in TimersDue :
    /\ timers' = timers \ {tm}
    /\ CASE tm.kind = "resume" ->
              /\ engine' = [engine EXCEPT !.isPaused = FALSE]
              /\ log' = [PlainLog("resumeTimer") EXCEPT
                            !.userPaused = log.userPaused]
              /\ UNCHANGED <<enemies, active, inactive>>
         [] tm.kind = "despawn" ->
              LET st == despawnEnemy(
                          LoopState(enemies, active, inactive, player), tm.id)
              IN /\ enemies' = st.en
                 /\ active' = st.act
                 /\ inactive' = st.inact
                 /\ log' = [PlainLog("despawnTimer") EXCEPT
                               !.userPaused = log.userPaused]
                 /\ UNCHANGED engine
         [] tm.kind = "gameOver" ->
              /\ engine' = [engine EXCEPT !.isPlaying = FALSE]
              /\ log' = [PlainLog("gameOverTimer") EXCEPT
                            !.ending = tm.reason,
                            !.userPaused = log.userPaused]
              /\ UNCHANGED <<enemies, active, inactive>>
    /\ UNCHANGED <<now, player, story, soundEvents, saveSlot, gen,
                 projectiles>>

(* Player.heal *)
Heal(amount) ==
  /\ engine.isPlaying
  /\ player' = heal(player, amount)
  /\ log' = PlainLog("heal")
  /\ UNCHANGED <<now, engine, story, enemies, active, inactive, soundEvents,
                 timers, saveSlot, gen,
                 projectiles>>

(* EnemyManager.enemyTakeDamage: the enemy record after a hit of amount;   *)
(* enemyDie clears isAlive *)
enemyTakeDamage(e, amount) ==
  LET h == e.health - amount
  IN IF h <= 0
     THEN [e EXCEPT !.health = h, !.isAlive = FALSE]
     ELSE [e EXCEPT !.health = h, !.state = "investigate"]

(* enemy.takeDamage(amount) on an active enemy; enemyDie schedules the     *)
(* despawn *)
EnemyHit(id, amount) ==
  /\ engine.isPlaying
  /\ \E i \in 1..Len(active) : active[i] = id
  /\ enemies' = [enemies EXCEPT ![id] = enemyTakeDamage(enemies[id], amount)]
  /\ timers' = IF enemies[id].health - amount <= 0
               THEN timers \cup {DespawnTimer(id, now)}
               ELSE timers
  /\ log' = [PlainLog("enemyHit") EXCEPT
                !.entered = IF /\ enemies[id].health - amount > 0
                               /\ enemies[id].state # "investigate"
                            THEN {id} ELSE {}]
  /\ UNCHANGED <<now, engine, player, story, active, inactive, soundEvents,
                 saveSlot, gen, projectiles>>

(* StoryManager.showTransmitterOptions *)
ShowTransmitterOptions ==
  /\ engine.isPlaying
  /\ ~story.finalChoiceMade
  /\ story' = [story EXCEPT !.finalChoiceMade = TRUE]
  /\ log' = PlainLog("showTransmitterOptions")
  /\ UNCHANGED <<now, engine, player, enemies, active, inactive, soundEvents,
                 timers, saveSlot, gen,
                 projectiles>>

(* StoryManager.handleItemCollected for the transmitter: the flag, the     *)
(* cutscene (pause and delayed resume), then checkStoryProgress, which     *)
(* calls endGame (another cutscene and the delayed gameOver) when the      *)
(* final choice has been made *)
CollectTransmitter ==
  /\ engine.isPlaying
  /\ ~story.transmitterFound
  /\ story' = [story EXCEPT !.transmitterFound = TRUE]
  /\ engine' = [engine EXCEPT !.isPaused = TRUE]
  /\ \E r \in {"sacrifice", "escape", "join"} :
        timers' = timers \cup {ResumeTimer(now)}
                    \cup (IF story.finalChoiceMade
                          THEN {GameOverTimer(r, now)} ELSE {})
  /\ log' = PlainLog("collectTransmitter")
  /\ UNCHANGED <<now, player, enemies, active, inactive, soundEvents,
                 saveSlot, gen,
                 projectiles>>

(* The numbers of the model are integers.  A call of GameEngine.update     *)
(* with a deltaTime that is NaN or Infinity is followed through the clock  *)
(* and the player's update; the quantities it leaves NaN or infinite are   *)
(* recorded in log.nonFinite (their integers in the state are then         *)
(* meaningless), and the model does not follow the program beyond such a   *)
(* step. *)
NonFiniteDeltas == {"NaN", "Infinity"}

(* every number of the state is finite *)
Finite == log.nonFinite = {}

(* gameTime += deltaTime *)
clockNonFinite(x) == TRUE

(* Player.updateMadness: madnessLevel += rate * deltaTime, then            *)
(* Math.max(0, Math.min(maxMadness, madnessLevel)): NaN stays NaN,         *)
(* 0 * Infinity is NaN, and an infinite sum is clamped to a finite value *)
madnessNonFinite(p, x) ==
  LET dark == IF ~p.flashlightOn \/ p.battery < batteryLow THEN 2 ELSE 0
      sprint == IF p.isSprinting THEN 1 ELSE 0
  IN x = "NaN" \/ dark + sprint - 1 = 0

(* Player.updateBattery: the battery changes only while the flashlight is  *)
(* on; Math.max(0, NaN) is NaN, Math.max(0, -Infinity) is 0 *)
batteryNonFinite(p, x) == p.flashlightOn /\ x = "NaN"

(* GameEngine.update(deltaTime) with a deltaTime that is not finite *)
UpdateNonFinite(x, k) ==
  /\ engine.isPlaying /\ ~engine.isPaused
  /\ Finite
  /\ LET p1 == IF player.isDead THEN player
               ELSE handleFlashlight(
                      handleReloading(
                        handleShooting(handleMovement(player, k), k, now),
                        k, now), k)
         rate == (IF ~p1.flashlightOn \/ p1.battery < batteryLow
                  THEN 2 ELSE 0) + (IF p1.isSprinting THEN 1 ELSE 0) - 1
         p2 == IF player.isDead \/ madnessNonFinite(p1, x) THEN p1
               ELSE [p1 EXCEPT !.madness = IF rate > 0 THEN maxMadness ELSE 0]
         p3 == IF player.isDead \/ batteryNonFinite(p2, x) \/ ~p2.flashlightOn
               THEN p2
               ELSE [p2 EXCEPT !.battery = 0]
     IN /\ player' = p3
        /\ log' = [Log("updateNonFinite", k, NoSound, <<>>, 0, "none", FALSE)
                     EXCEPT !.nonFinite =
                        (IF clockNonFinite(x) THEN {"gameTime"} ELSE {})
                        \cup (IF ~player.isDead /\ madnessNonFinite(p1, x)
                              THEN {"madness"} ELSE {})
                        \cup (IF ~player.isDead /\ batteryNonFinite(p1, x)
                              THEN {"battery"} ELSE {})]
  /\ UNCHANGED <<now, engine, story, enemies, active, inactive, soundEvents,
                 timers, saveSlot, gen,
                 projectiles>>

(* The bodies of the physics world by the method that adds them:           *)
(* addPlayerBody, addEnemyBody, addProjectile, addStaticBody,              *)
(* addPickupBody, addGroundPlane *)
BodyKinds == {"player", "enemy", "projectile", "static", "pickup", "ground"}

AllGroups ==
  {PLAYER_GROUP, ENEMY_GROUP, WORLD_GROUP, PICKUP_GROUP, PROJECTILE_GROUP}

(* collisionFilterGroup and collisionFilterMask of a body (the mask as the *)
(* set of the groups whose bit is set).  addGroundPlane passes neither, so *)
(* the ground body has the defaults of CANNON.Body: group 1, which is the  *)
(* value of PLAYER_GROUP, and mask -1, every group *)
bodyFilter(kind) ==
  CASE kind = "player" ->
         [group |-> PLAYER_GROUP,
          mask |-> {WORLD_GROUP, ENEMY_GROUP, PICKUP_GROUP}]
    [] kind = "enemy" ->
         [group |-> ENEMY_GROUP,
          mask |-> {WORLD_GROUP, PLAYER_GROUP, PROJECTILE_GROUP}]
    [] kind = "projectile" ->
         [group |-> PROJECTILE_GROUP, mask |-> {WORLD_GROUP, ENEMY_GROUP}]
    [] kind = "static" ->
         [group |-> WORLD_GROUP,
          mask |-> {PLAYER_GROUP, ENEMY_GROUP, PROJECTILE_GROUP}]
    [] kind = "pickup" ->
         [group |-> PICKUP_GROUP, mask |-> {PLAYER_GROUP}]
    [] kind = "ground" ->
         [group |-> PLAYER_GROUP, mask |-> AllGroups]

(* the filter of the world's broadphase: each body's group is in the       *)
(* other's mask *)
canCollide(a, b) == a.group \in b.mask /\ b.group \in a.mask

(* the broadphase tests a pair of bodies of kinds ka and kb *)
TestPair(ka, kb) ==
  /\ log' = [PlainLog("testPair") EXCEPT
               !.pair = <<ka, kb>>,
               !.collides = canCollide(bodyFilter(ka), bodyFilter(kb))]
  /\ log' # log
  /\ UNCHANGED <<now, engine, player, story, enemies, active, inactive,
                 soundEvents, timers, saveSlot, gen,
                 projectiles>>

(* PhysicsManager.addProjectile: the body is added to the world and to the *)
(* registry with its remaining lifetime; addedAt is a history field, the   *)
(* game time of the addition, contact whether world.step has reported a    *)
(* contact of the body with a World or Enemy body *)
addProjectile(ps, t) ==
  Append(ps, [lifetime |-> projectileLifetime, addedAt |-> t,
              contact |-> FALSE])

(* a call of PhysicsManager.addProjectile.  Neither PhysicsManager.update  *)
(* nor any other code calls updateProjectiles or checkCollisions, so no    *)
(* step changes the registry afterwards *)
AddProjectile ==
  /\ Len(projectiles) < MaxProjectiles
  /\ projectiles' = addProjectile(projectiles, engine.gameTime)
  /\ log' = PlainLog("addProjectile")
  /\ UNCHANGED <<now, engine, player, story, enemies, active, inactive,
                 soundEvents, timers, saveSlot, gen>>

(* world.step puts a contact of projectile i with a World or Enemy body    *)
(* into world.contacts *)
WorldContact(i) ==
  /\ engine.isPlaying /\ ~engine.isPaused
  /\ i \in 1..Len(projectiles)
  /\ ~projectiles[i].contact
  /\ projectiles' = [projectiles EXCEPT ![i].contact = TRUE]
  /\ log' = PlainLog("contact")
  /\ UNCHANGED <<now, engine, player, story, enemies, active, inactive,
                 soundEvents, timers, saveSlot, gen>>

(* EnemyManager.registerSoundEvent(position, volume) called between two     *)
(* ticks *)
EmitSound(snd) ==
  /\ snd # NoSound
  /\ soundEvents' = registerSoundEvent(soundEvents, snd.pos, snd.volume, now)
  /\ enemies' = alertNearbyEnemies(enemies, active, snd.pos,
                                   snd.volume * volumeRange)
  /\ log' = [PlainLog("emit") EXCEPT !.sound = snd]
  /\ UNCHANGED <<now, engine, player, story, active, inactive, timers,
                 saveSlot, gen, projectiles>>

(* a call of an enemy's canHearPlayer closure outside the tick *)
ProbeHearing(id) ==
  /\ id \in PoolIds(gen)
  /\ log' = [PlainLog("probe") EXCEPT
               !.heard = canEnemyHearPlayer(enemies[id], soundEvents, now)]
  /\ log' # log
  /\ UNCHANGED <<now, engine, player, story, enemies, active, inactive,
                 soundEvents, timers, saveSlot, gen,
                 projectiles>>

-----------------------------------------------------------------------------
(* Inputs of a frame *)

Const(v) == [k \in 1..PoolSize |-> v]

FrameInput(d, keys, np, sound, rnd, face, body, sp) ==
  [d |-> d, keys |-> keys, np |-> np, sound |-> sound, rnd |-> rnd,
   face |-> face, body |-> body, sp |-> sp]

(* the player far away from every spawn point: no enemy is spawned *)
FarAway == 2 * despawnDistance

-----------------------------------------------------------------------------
(* The weapon: firing and reloading under arbitrary fire and reload input, *)
(* starting from a full weapon or from a nearly exhausted reserve *)

WeaponDeltas == {3, 20}

WeaponKeys ==
  {[NoKeys EXCEPT !.shoot = s, !.reload = r] : s \in BOOLEAN, r \in BOOLEAN}

WeaponInputs ==
  {FrameInput(d, k, FarAway, NoSound, Const(FALSE), Const(1), Const(0), 60) :
     d \in WeaponDeltas, k \in WeaponKeys}

WeaponStates ==
  {[PlayerInit EXCEPT !.clip = c[1], !.ammo = c[2], !.pos = FarAway] :
     c \in {<<10, 30>>, <<2, 3>>, <<1, 0>>}}

InitWeapon == MidGame(WeaponStates, {"infected_scientist"}, {3})

NextWeapon ==
  \/ \E in \in WeaponInputs : Frame(in, MaxTime)
  \/ Pause
  \/ Resume

SpecWeapon == InitWeapon /\ [][NextWeapon]_vars

(* the weapon in use, and a new game started at any moment *)
NextRestart ==
  \/ \E in \in WeaponInputs : Frame(in, MaxTime)
  \/ StartNewGame

SpecRestart == InitWeapon /\ [][NextRestart]_vars

-----------------------------------------------------------------------------
(* Combat: the enemies spawn next to the player, close in, attack, are     *)
(* drawn away (out of the attack range and out of interest) and come       *)
(* back, under short and long frames *)

AttackDeltas == {8, 16}

(* where the physics bodies of the enemies are after a frame: in attack    *)
(* range of the player, beyond the lose-interest distance *)
AttackBodies == {4, 150}

AttackInputs ==
  {FrameInput(d, NoKeys, 0, NoSound, Const(FALSE), Const(-1), Const(b), 60) :
     d \in AttackDeltas, b \in AttackBodies}

AttackStates == {PlayerInit, [PlayerInit EXCEPT !.health = 20]}

InitAttack == MidGame(AttackStates, {"infected_scientist"}, AttackDeltas)

(* the frames arrive at a steady rate *)
NextAttack ==
  \E in \in AttackInputs : in.d = engine.deltaTime /\ Frame(in, AttackTime)

SpecAttack == InitAttack /\ [][NextAttack]_vars

-----------------------------------------------------------------------------
(* Vitals: health, madness, battery and clip under every single-key input, *)
(* enemy attacks and heals, from a fresh player and from a player who is   *)
(* hurt, nearly mad and nearly out of battery and ammunition *)

VitalsDeltas == {8}

HealAmounts == {30}

VitalsKeys ==
  {NoKeys} \cup
  {[NoKeys EXCEPT ![f] = TRUE] : f \in {"shoot", "reload", "flashlight", "sprint"}}

VitalsInputs ==
  {FrameInput(d, k, 0, NoSound, Const(FALSE), Const(-1), Const(4), 60) :
     d \in VitalsDeltas, k \in VitalsKeys}

VitalsStates ==
  {PlayerInit,
   [PlayerInit EXCEPT !.health = 20, !.madness = 1600, !.battery = 7,
                      !.clip = 1, !.ammo = 3]}

InitVitals == MidGame(VitalsStates, {"infected_scientist"}, VitalsDeltas)

NextVitals ==
  \/ \E in \in VitalsInputs : Frame(in, VitalsTime)
  \/ \E a \in HealAmounts : Heal(a)

SpecVitals == InitVitals /\ [][NextVitals]_vars

-----------------------------------------------------------------------------
(* Sound: an enemy patrols out of sight until it falls idle, then sounds   *)
(* are emitted near it (loud enough to alert it at once, or only to be     *)
(* heard); hearing is also probed while the game is paused and the list of *)
(* events is not pruned *)

SoundDeltas == {26, 51}

(* sound events at the player's position: volume 1.0 and volume 0.1 *)
Sounds == {[pos |-> 0, volume |-> 10], [pos |-> 0, volume |-> 1]}

SoundInputs ==
  {FrameInput(d, NoKeys, 0, snd, Const(FALSE), Const(1), Const(30), 60) :
     d \in SoundDeltas, snd \in Sounds \cup {NoSound}}

InitSound == MidGame({PlayerInit}, {"infected_scientist"}, SoundDeltas)

NextSound ==
  \/ \E in \in SoundInputs : in.d = engine.deltaTime /\ Frame(in, SoundTime)
  \/ Pause
  \/ Resume
  \/ \E id \in Ids : ProbeHearing(id)

SpecSound == InitSound /\ [][NextSound]_vars

(* shots instead of sound events *)
ShotInputs ==
  {FrameInput(d, k, 0, NoSound, Const(FALSE), Const(1), Const(30), 60) :
     d \in SoundDeltas, k \in {NoKeys, [NoKeys EXCEPT !.shoot = TRUE]}}

NextShot ==
  \/ \E in \in ShotInputs : in.d = engine.deltaTime /\ Frame(in, SoundTime)
  \/ Pause
  \/ Resume

SpecShot == InitSound /\ [][NextShot]_vars

-----------------------------------------------------------------------------
(* A session from the construction of the engine: new games, the story's   *)
(* transmitter events, pausing, saving and loading, with frames that       *)
(* arrive after long stalls (the game loop does not clamp deltaTime) *)

SessionDeltas == {2000}

(* damage of a hit on an enemy: half the health of an infected scientist *)
HitAmounts == {40}

SessionKeys == {NoKeys, [NoKeys EXCEPT !.flashlight = TRUE]}

SessionInputs ==
  {FrameInput(d, k, 0, NoSound, Const(FALSE), Const(1), Const(30), 60) :
     d \in SessionDeltas, k \in SessionKeys}

InitSession == InitWith({"infected_scientist"})

(* the story's events and the endings *)
NextEnding ==
  \/ \E in \in SessionInputs : Frame(in, SessionTime)
  \/ StartNewGame
  \/ Pause
  \/ Resume
  \/ FireTimer
  \/ ShowTransmitterOptions
  \/ CollectTransmitter
  \/ \E id \in Ids, a \in HitAmounts :
        enemies[id].isAlive /\ EnemyHit(id, a)

SpecEnding == InitSession /\ [][NextEnding]_vars

(* saving and loading *)
NextSave ==
  \/ \E in \in SessionInputs : Frame(in, SessionTime)
  \/ StartNewGame
  \/ FireTimer
  \/ SaveGame
  \/ LoadGame

SpecSave == InitSession /\ [][NextSave]_vars

-----------------------------------------------------------------------------
(* A crowd: a pool with more instances than may be active at once, next to *)
(* spawn points, so that an enemy is spawned in every tick until the limit *)
(* is reached; the bodies stay out of sight of the player; the game is     *)
(* saved and loaded in between *)

CrowdDeltas == {8}

CrowdBodies == {160}

CrowdInputs ==
  {FrameInput(d, NoKeys, 0, NoSound, Const(FALSE), Const(1), Const(b), 60) :
     d \in CrowdDeltas, b \in CrowdBodies}

(* the frame of a crowd tick *)
CrowdInput(d) == CHOOSE in \in CrowdInputs : in.d = d

(* the state n ticks after a pool of CrowdSize instances was created, the  *)
(* frames d apart (a set with that one state) *)
RECURSIVE crowdAfter(_, _)
crowdAfter(n, d) ==
  IF n = 0
  THEN {[st |-> LoopState([id \in Ids |->
                             IF id \in 1..CrowdSize
                             THEN createEnemy("infected_scientist")
                             ELSE NoEnemy],
                          <<>>, [i \in 1..CrowdSize |-> i], PlayerInit),
         sounds |-> <<>>,
         su |-> [story |-> [StoryInit EXCEPT !.signalSourceLocated = TRUE],
                 cutscene |-> FALSE],
         near |-> {}, ending |-> "none", spawn |-> "none",
         preSpawn |-> <<>>]}
  ELSE {TickResult(r.st.p, r.st.en, r.st.act, r.st.inact, r.sounds,
                   r.su.story, CrowdInput(d), n * d) :
          r \in crowdAfter(n - 1, d)}

(* a state in the middle of a session, one spawn short of the limit of     *)
(* active enemies *)
InitCrowd ==
  \E d \in CrowdDeltas :
    \E r \in crowdAfter(maxActiveEnemies - 1, d) :
      /\ now = (maxActiveEnemies - 1) * d
      /\ engine = [EngineInit EXCEPT !.isPlaying = TRUE, !.deltaTime = d,
                                     !.gameTime = (maxActiveEnemies - 1) * d]
      /\ player = r.st.p
      /\ story = r.su.story
      /\ enemies = r.st.en
      /\ active = r.st.act
      /\ inactive = r.st.inact
      /\ soundEvents = r.sounds
      /\ timers = {}
      /\ saveSlot = NoSave
      /\ gen = 0
      /\ projectiles = <<>>
      /\ log = PlainLog("init")

NextCrowd ==
  \/ \E in \in CrowdInputs : Frame(in, CrowdTime)
  \/ SaveGame
  \/ LoadGame

SpecCrowd == InitCrowd /\ [][NextCrowd]_vars

-----------------------------------------------------------------------------
(* Movement: every combination of the sprint, crouch and jump keys, far    *)
(* away from the enemies *)

MovementDeltas == {3}

MovementKeys ==
  {[NoKeys EXCEPT !.sprint = s, !.crouch = c, !.jump = j] :
     s \in BOOLEAN, c \in BOOLEAN, j \in BOOLEAN}

MovementInputs ==
  {FrameInput(d, k, FarAway, NoSound, Const(FALSE), Const(1), Const(0), 60) :
     d \in MovementDeltas, k \in MovementKeys}

InitMovement ==
  MidGame({[PlayerInit EXCEPT !.pos = FarAway]}, {"infected_scientist"},
          MovementDeltas)

NextMovement ==
  \/ \E in \in MovementInputs : Frame(in, MaxTime)
  \/ Pause
  \/ Resume

SpecMovement == InitMovement /\ [][NextMovement]_vars

-----------------------------------------------------------------------------
(* Jumping: the jump key pressed and released at will under short frames,  *)
(* so that a jump lasts several ticks, far away from the enemies *)

JumpDeltas == {1}

JumpKeys == {[NoKeys EXCEPT !.jump = j] : j \in BOOLEAN}

JumpInputs ==
  {FrameInput(d, k, FarAway, NoSound, Const(FALSE), Const(1), Const(0), 60) :
     d \in JumpDeltas, k \in JumpKeys}

InitJump ==
  MidGame({[PlayerInit EXCEPT !.pos = FarAway]}, {"infected_scientist"},
          JumpDeltas)

NextJump == \E in \in JumpInputs : Frame(in, MaxTime)

SpecJump == InitJump /\ [][NextJump]_vars

-----------------------------------------------------------------------------
(* Failures: in any frame of a short game the update of one subsystem may  *)
(* throw *)

NextFault ==
  \/ \E in \in VitalsInputs : Frame(in, MaxTime)
  \/ \E in \in VitalsInputs, k \in 1..Len(Phases) :
        FrameThrows(in, MaxTime, k)

SpecFault == InitVitals /\ [][NextFault]_vars

-----------------------------------------------------------------------------
(* Projectiles: projectile bodies are added and touch other bodies while   *)
(* the ticks run for longer than the lifetime of a projectile *)

ProjectileDeltas == {8}

ProjectileInputs ==
  {FrameInput(d, NoKeys, FarAway, NoSound, Const(FALSE), Const(1), Const(0),
              60) : d \in ProjectileDeltas}

InitProjectile ==
  MidGame({[PlayerInit EXCEPT !.pos = FarAway]}, {"infected_scientist"},
          ProjectileDeltas)

NextProjectile ==
  \/ \E in \in ProjectileInputs : Frame(in, VitalsTime)
  \/ AddProjectile
  \/ \E i \in 1..MaxProjectiles : WorldContact(i)

SpecProjectile == InitProjectile /\ [][NextProjectile]_vars

-----------------------------------------------------------------------------
(* Hits: the enemies close in on the player and are hit at any moment,     *)
(* alive or dying; the despawn timers fire when due *)

HitDeltas == {8}

DamageAmounts == {50}

HitInputs ==
  {FrameInput(d, NoKeys, 0, NoSound, Const(FALSE), Const(-1), Const(4), 60) :
     d \in HitDeltas}

InitHit == MidGame({PlayerInit}, {"infected_scientist"}, HitDeltas)

(* an instance takes at most MaxHits hits from full health *)
NextHit ==
  \/ \E in \in HitInputs : Frame(in, HitTime)
  \/ \E id \in Ids, a \in DamageAmounts :
        /\ id \in PoolIds(gen)
        /\ enemies[id].health - a
              >= enemyTypes[enemies[id].type].health - MaxHits * a
        /\ EnemyHit(id, a)
  \/ FireTimer

SpecHit == InitHit /\ [][NextHit]_vars

-----------------------------------------------------------------------------
(* Death: a weak player is attacked until dead, and is healed, before and  *)
(* after, while the game is saved, loaded and started anew *)

DeathDeltas == {8}

DeathInputs ==
  {FrameInput(d, NoKeys, 0, NoSound, Const(FALSE), Const(-1), Const(4), 60) :
     d \in DeathDeltas}

InitDeath ==
  MidGame({[PlayerInit EXCEPT !.health = 10]}, {"infected_scientist"},
          DeathDeltas)

(* the game is saved once, at any moment, and started anew after the       *)
(* player's death *)
NextDeath ==
  \/ \E in \in DeathInputs : Frame(in, DeathTime)
  \/ \E a \in HealAmounts : Heal(a)
  \/ ~saveSlot.present /\ SaveGame
  \/ LoadGame
  \/ player.isDead /\ StartNewGame

SpecDeath == InitDeath /\ [][NextDeath]_vars

-----------------------------------------------------------------------------
(* The AI state machine: the enemies are held next to the player or out of *)
(* sight, with and without a sound that the distant ones hear but that     *)
(* alerts none, until they fall idle and leave idle again; a living enemy  *)
(* at full health may be hit *)

FsmDeltas == {26}

FsmBodies == {4, 150}

(* a faint sound out of the hearing of the enemies next to the player *)
FsmSounds == {NoSound, [pos |-> 100, volume |-> 1]}

FsmInputs ==
  {FrameInput(d, NoKeys, 0, snd, Const(TRUE), Const(-1), Const(b), 60) :
     d \in FsmDeltas, snd \in FsmSounds, b \in FsmBodies}

InitFsm == MidGame({PlayerInit}, {"infected_scientist"}, FsmDeltas)

NextFsm ==
  \/ \E in \in FsmInputs : Frame(in, FsmTime)
  \/ \E id \in Ids, a \in DamageAmounts :
        /\ id \in PoolIds(gen)
        /\ enemies[id].isAlive
        /\ enemies[id].health = enemyTypes[enemies[id].type].health
        /\ EnemyHit(id, a)

SpecFsm == InitFsm /\ [][NextFsm]_vars

-----------------------------------------------------------------------------
(* Collisions: the pairs of bodies the broadphase filters, during a short  *)
(* game *)

NextCollision ==
  \/ \E in \in VitalsInputs : Frame(in, MaxTime)
  \/ \E ka \in BodyKinds, kb \in BodyKinds : TestPair(ka, kb)

SpecCollision == InitVitals /\ [][NextCollision]_vars

-----------------------------------------------------------------------------
(* Updates with a deltaTime that is not finite, among ordinary frames *)

NextNonFinite ==
  \/ Finite /\ \E in \in VitalsInputs : Frame(in, MaxTime)
  \/ \E x \in NonFiniteDeltas, k \in VitalsKeys : UpdateNonFinite(x, k)

SpecNonFinite == InitVitals /\ [][NextNonFinite]_vars

-----------------------------------------------------------------------------
(* Hysteresis: the enemies close in, attack, and are moved between the     *)
(* attack range, the band up to 1.5 x attackRange and far away *)

BandDeltas == {8}

(* in attack range, between attackRange and 1.5 x attackRange, beyond the  *)
(* lose-interest distance *)
BandBodies == {4, 10, 150}

BandInputs ==
  {FrameInput(d, NoKeys, 0, NoSound, Const(FALSE), Const(-1), Const(b), 60) :
     d \in BandDeltas, b \in BandBodies}

InitBand == MidGame({PlayerInit}, {"infected_scientist"}, BandDeltas)

NextBand == \E in \in BandInputs : Frame(in, BandTime)

SpecBand == InitBand /\ [][NextBand]_vars

-----------------------------------------------------------------------------
(* Emission: sound events registered between the ticks, next to enemies    *)
(* that patrol, fall idle and investigate *)

EmitDeltas == {51}

(* where the physics bodies of the enemies are after a frame: the first   *)
(* slot of the pool at 30, the others at 60 *)
EmitBodies == [k \in 1..PoolSize |-> IF k = 1 THEN 30 ELSE 60]

(* sound events at the place of the first enemy: volume 1.0 reaches the    *)
(* others too, volume 0.1 does not *)
EmitSounds == {[pos |-> 30, volume |-> 10], [pos |-> 30, volume |-> 1]}

EmitInputs ==
  {FrameInput(d, NoKeys, 0, NoSound, Const(FALSE), Const(1), EmitBodies, 60) :
     d \in EmitDeltas}

InitEmit == MidGame({PlayerInit}, {"infected_scientist"}, EmitDeltas)

NextEmit ==
  \/ \E in \in EmitInputs : Frame(in, EmitTime)
  \/ \E snd \in EmitSounds : Len(soundEvents) < MaxEmits /\ EmitSound(snd)

SpecEmit == InitEmit /\ [][NextEmit]_vars

-----------------------------------------------------------------------------
(* Despawning: the enemies close in, the player stays or moves far away,   *)
(* the enemies are hit and killed at any moment, and the despawn timers    *)
(* fire when due; frames keep arriving and due timers are run *)

DespawnDeltas == {8}

DespawnInputs ==
  {FrameInput(d, NoKeys, np, NoSound, Const(FALSE), Const(-1), Const(4), 60) :
     d \in DespawnDeltas, np \in {0, FarAway}}

(* a hit that kills an infected scientist at once *)
KillAmounts == {80}

InitDespawn == MidGame({PlayerInit}, {"infected_scientist"}, DespawnDeltas)

FrameDespawn == \E in \in DespawnInputs : Frame(in, DespawnTime)

NextDespawn ==
  \/ FrameDespawn
  \/ \E id \in Ids, a \in KillAmounts :
        /\ id \in PoolIds(gen)
        /\ enemies[id].health > 0
        /\ EnemyHit(id, a)
  \/ FireTimer

(* the step of the clock that a frame makes *)
FramePasses ==
  \E d \in DespawnDeltas :
     TimersDue = {} /\ now + d <= DespawnTime /\ now' = now + d

(* the browser keeps calling the animation frame callback and runs every   *)
(* timeout that is due *)
SpecDespawn ==
  /\ InitDespawn /\ [][NextDespawn]_vars
  /\ WF_now(FramePasses) /\ WF_vars(FireTimer)

-----------------------------------------------------------------------------
(* Game over: the story is completed in the middle of a session, and a new *)
(* game is started before or after the delayed gameOver is due *)

OverDeltas == {10}

OverInputs ==
  {FrameInput(d, NoKeys, FarAway, NoSound, Const(FALSE), Const(1), Const(0),
              60) : d \in OverDeltas}

InitOver == MidGame({PlayerInit}, {"infected_scientist"}, OverDeltas)

NextOver ==
  \/ \E in \in OverInputs : Frame(in, OverTime)
  \/ ShowTransmitterOptions
  \/ CollectTransmitter
  \/ StartNewGame
  \/ FireTimer

SpecOver == InitOver /\ [][NextOver]_vars

-----------------------------------------------------------------------------
(* Pausing: a session that has just begun, with the player away from the   *)
(* signal source; the player reaches the source (a cutscene in a tick),    *)
(* the transmitter is collected (a cutscene outside the ticks), and the    *)
(* user pauses and resumes at any moment *)

PauseDeltas == {10}

(* no spawn point is near either position; the second is within the        *)
(* trigger distance of the signal source *)
PausePositions == {FarAway, 20}

PauseInputs ==
  {FrameInput(d, NoKeys, np, NoSound, Const(FALSE), Const(1), Const(0), 60) :
     d \in PauseDeltas, np \in PausePositions}

InitPause ==
  /\ now = 0
  /\ engine = [EngineInit EXCEPT !.isPlaying = TRUE, !.deltaTime = 10]
  /\ player = [PlayerInit EXCEPT !.pos = FarAway]
  /\ story = StoryInit
  /\ enemies = [id \in Ids |-> IF id \in PoolIds(0)
                                THEN createEnemy("infected_scientist")
                                ELSE NoEnemy]
  /\ active = <<>>
  /\ inactive = [i \in 1..PoolSize |-> i]
  /\ soundEvents = <<>>
  /\ timers = {}
  /\ saveSlot = NoSave
  /\ gen = 0
  /\ projectiles = <<>>
  /\ log = PlainLog("init")

NextPause ==
  \/ \E in \in PauseInputs : Frame(in, PauseTime)
  \/ Pause
  \/ Resume
  \/ CollectTransmitter
  \/ FireTimer

SpecPause == InitPause /\ [][NextPause]_vars

-----------------------------------------------------------------------------
(* The timers of the core across pauses: the weapon is fired and reloaded  *)
(* and a sound is made next to the enemies, and the user pauses and        *)
(* resumes at any moment; frames keep coming while the game is paused *)

TimersDeltas == {10}

TimersKeys ==
  {[NoKeys EXCEPT !.shoot = s, !.reload = r] : s \in BOOLEAN, r \in BOOLEAN}

TimersSounds == {[pos |-> 0, volume |-> 10]}

TimersInputs ==
  {FrameInput(d, k, 0, snd, Const(FALSE), Const(1), Const(30), 60) :
     d \in TimersDeltas, k \in TimersKeys,
     snd \in TimersSounds \cup {NoSound}}

InitTimers == MidGame({PlayerInit}, {"infected_scientist"}, TimersDeltas)

NextTimers ==
  \/ \E in \in TimersInputs : Frame(in, TimersTime)
  \/ Pause
  \/ Resume

SpecTimers == InitTimers /\ [][NextTimers]_vars

-----------------------------------------------------------------------------
(* The whole program: every operation under every input above.  The        *)
(* specifications above are its restrictions to the operations and inputs  *)
(* that one group of properties is about *)

AllInputs ==
  WeaponInputs \cup AttackInputs \cup VitalsInputs \cup SoundInputs
    \cup ShotInputs \cup SessionInputs \cup CrowdInputs \cup MovementInputs
    \cup JumpInputs \cup ProjectileInputs \cup HitInputs \cup DeathInputs
    \cup FsmInputs \cup BandInputs \cup EmitInputs \cup DespawnInputs
    \cup OverInputs \cup PauseInputs \cup TimersInputs

Next ==
  \/ Finite /\ \E in \in AllInputs : Frame(in, SessionTime)
  \/ Finite /\ StartNewGame
  \/ Finite /\ SaveGame
  \/ Finite /\ LoadGame
  \/ Finite /\ Pause
  \/ Finite /\ Resume
  \/ Finite /\ FireTimer
  \/ Finite /\ \E a \in HealAmounts : Heal(a)
  \/ Finite /\ \E id \in Ids, a \in HitAmounts \cup DamageAmounts
                                      \cup KillAmounts :
                 EnemyHit(id, a)
  \/ Finite /\ ShowTransmitterOptions
  \/ Finite /\ CollectTransmitter
  \/ Finite /\ \E id \in Ids : ProbeHearing(id)
  \/ Finite /\ \E snd \in EmitSounds : EmitSound(snd)
  \/ \E x \in NonFiniteDeltas, k \in VitalsKeys : UpdateNonFinite(x, k)
  \/ Finite /\ \E ka \in BodyKinds, kb \in BodyKinds : TestPair(ka, kb)
  \/ Finite /\ \E in \in AllInputs, k \in 1..Len(Phases) :
                 FrameThrows(in, SessionTime, k)
  \/ Finite /\ AddProjectile
  \/ Finite /\ \E i \in 1..MaxProjectiles : WorldContact(i)

Spec == Init /\ [][Next]_vars

-----------------------------------------------------------------------------
(* Properties of the weapon *)

(* a step that is an engine update *)
IsTick == log'.op = "tick"

(* the ammunition fields that an empty click must leave alone *)
AmmoUnchanged ==
  /\ player'.ammo = player.ammo
  /\ player'.clip = player.clip
  /\ player'.lastFired = player.lastFired

(* C2 as stated: in a tick in which fire is requested with an empty clip,  *)
(* the reserve, the clip and the last-fired time do not change *)
C2_EmptyClickAnyTick ==
  [][IsTick /\ log'.shoot /\ player.clip = 0 => AmmoUnchanged]_vars

(* C2, amended: in a tick in which fire is requested with an empty clip    *)
(* and no reload is in progress, the reserve, the clip and the last-fired  *)
(* time do not change *)
C2_EmptyClick ==
  [][IsTick /\ log'.shoot /\ player.clip = 0 /\ ~player.isReloading
       => AmmoUnchanged]_vars

(* the empty-click path has run: fire was requested with the cooldown      *)
(* elapsed, no reload in progress or requested, and the clip is empty *)
C2_Witness ==
  /\ log.op = "tick"
  /\ log.shoot
  /\ ~log.reload
  /\ ~player.isReloading
  /\ player.clip = 0
  /\ player.lastFired > 0
  /\ now - player.lastFired >= fireRate

(* the rounds a reload moves *)
RoundsToLoad(p) == Min(clipSize - p.clip, p.ammo)

(* C3: in a tick of a living player, a reload whose timer has elapsed      *)
(* moves min(clipSize - clip, reserve) rounds from the reserve to the clip *)
(* and ends the reload; a reload whose timer has not elapsed changes       *)
(* nothing, whether or not reload is requested again; and with no reload   *)
(* in progress no round moves from the reserve *)
C3_Reload ==
  [][IsTick /\ ~player.isDead =>
       /\ (player.isReloading /\ now' - player.reloadStartTime >= reloadTime
             => /\ player'.clip = player.clip + RoundsToLoad(player)
                /\ player'.ammo = player.ammo - RoundsToLoad(player)
                /\ ~player'.isReloading)
       /\ (player.isReloading /\ now' - player.reloadStartTime < reloadTime
             => /\ player'.clip = player.clip
                /\ player'.ammo = player.ammo
                /\ player'.isReloading
                /\ player'.reloadStartTime = player.reloadStartTime)
       /\ (~player.isReloading
             => /\ player'.ammo = player.ammo
                /\ player'.clip <= player.clip)]_vars

(* a reload that found fewer rounds in the reserve than the clip needed    *)
(* has completed, in a tick in which reload was requested again *)
C3_Witness ==
  /\ log.op = "tick"
  /\ log.reload
  /\ ~player.isReloading
  /\ player.clip = 5
  /\ player.ammo = 0

-----------------------------------------------------------------------------
(* Properties of combat *)

(* the enemy instances that exist *)
Instances == {id \in Ids : enemies[id].type # "none"}

C8_NoDamageAfterDeath == log.op = "tick" => log.deadHits = 0

-----------------------------------------------------------------------------
(* Properties of the vitals *)

(* C1: the clip never exceeds its size, and health, madness and battery    *)
(* stay within their ranges *)
C1_VitalsInRange ==
  /\ player.clip <= clipSize
  /\ 0 <= player.health /\ player.health <= maxHealth
  /\ 0 <= player.madness /\ player.madness <= maxMadness
  /\ 0 <= player.battery /\ player.battery <= maxBattery

(* a tick in which an attack was applied has left the health at 0, the     *)
(* madness at its maximum and the battery empty *)
C1_Witness ==
  /\ log.op = "tick"
  /\ Len(log.hits) > 0
  /\ player.health = 0
  /\ player.madness = maxMadness
  /\ player.battery = 0

-----------------------------------------------------------------------------
(* Properties of sound and hearing *)

IsActive(id) == \E i \in 1..Len(active) : active[i] = id

(* id is an active, living enemy in state idle that is still active after  *)
(* the step *)
IdleBefore(id) ==
  /\ id \in Instances
  /\ IsActive(id)
  /\ enemies[id].isAlive
  /\ enemies[id].state = "idle"
  /\ enemies'[id].isActive

(* C4, for living enemies and counting an escalation to chase or attack    *)
(* as investigating: an idle enemy is investigating at the end of a tick   *)
(* in which a sound event was emitted within its detection range *)
C4_IdleInvestigatesSound ==
  [][IsTick /\ log'.sound # NoSound =>
       \A id \in Ids :
          IdleBefore(id)
          /\ Dist(log'.sound.pos, enemies[id].pos)
               < enemyTypes[enemies[id].type].detectionRange
          => enemies'[id].state \in {"investigate", "chase", "attack"}]_vars

(* C5: whenever an enemy's hearing test answers yes, some event in the     *)
(* list is not older than soundMemoryDuration *)
C5_NoStaleHearing ==
  log.op = "probe" /\ log.heard =>
     \E i \in 1..Len(soundEvents) :
        now - soundEvents[i].timestamp <= soundMemoryDuration

(* a hearing test has answered no while the list still holds an event      *)
(* older than soundMemoryDuration that is in range of every pool enemy *)
C5_Witness ==
  /\ log.op = "probe"
  /\ ~log.heard
  /\ \E i \in 1..Len(soundEvents) :
        /\ now - soundEvents[i].timestamp > soundMemoryDuration
        /\ \A id \in PoolIds(gen) :
              Dist(soundEvents[i].pos, enemies[id].pos)
                < enemyTypes[enemies[id].type].detectionRange

(* the weapon fires in this step *)
Fires == IsTick /\ firesWeapon(player, [NoKeys EXCEPT !.shoot = log'.shoot], now')

(* C7: when the weapon fires within the detection range of an idle enemy   *)
(* that does not see the player, the enemy is investigating the position   *)
(* of the shot at the end of the tick *)
C7_ShotIsInvestigated ==
  [][Fires =>
       \A id \in Ids :
          IdleBefore(id)
          /\ ~canEnemySeePlayer(enemies[id], player)
          /\ Dist(player.pos, enemies[id].pos)
               < enemyTypes[enemies[id].type].detectionRange
          => /\ enemies'[id].state = "investigate"
             /\ enemies'[id].investigationPoint = player.pos]_vars

-----------------------------------------------------------------------------
(* Properties of the endings and of saving *)

(* C9: a tick that ends with the player alive and the madness at its       *)
(* maximum selects the insanity ending *)
C9_InsanityBeforeCompletion ==
  log.op = "tick" /\ ~player.isDead /\ player.madness >= maxMadness
    => log.ending = "insanity"

(* the fields of a snapshot that the round trip is about *)
SerializedFields(sn) ==
  [gameTime |-> sn.gameTime, playerState |-> sn.playerState,
   enemyState |-> sn.enemyState]

(* C10: loading a snapshot that was taken of the current state leaves the  *)
(* serialized fields of the player, the clock and the active enemies as    *)
(* they are *)
C10_RoundTrip ==
  [][log'.op = "loadGame" /\ saveSlot = Snapshot
       => SerializedFields(Snapshot') = SerializedFields(saveSlot)]_vars

-----------------------------------------------------------------------------
(* Properties of the order of a tick *)

(* the enemies whose AI is evaluated by the tick that starts in this state *)
Evaluated ==
  {id \in Ids : IsActive(id) /\ enemies[id].isAlive /\ enemies[id].isActive}

(* C11: the position of an enemy that the enemy's AI reads in a tick is    *)
(* the position its body has after the physics step of that tick *)
C11_AIReadsPostPhysics ==
  [][IsTick => \A id \in Evaluated : enemies[id].pos = enemies'[id].bodyPos]_vars

(* C12: the sound event of a shot fired in a tick is in the list that the  *)
(* enemies' perception of that tick is evaluated on, and so is every event *)
(* that was in the list when the tick began: the list is not pruned before *)
(* the perception of the tick *)
C12_BusAtPerception ==
  [][IsTick =>
       /\ Fires => \E i \in 1..Len(log'.bus) :
                      /\ log'.bus[i].timestamp = now'
                      /\ log'.bus[i].pos = player'.pos
       /\ \A i \in 1..Len(soundEvents) :
             \E j \in 1..Len(log'.bus) : log'.bus[j] = soundEvents[i]]_vars

(* C13: a tick that comes after a stall (a gap of SessionDeltas between    *)
(* two frames) advances the clock and the subsystems by less than the      *)
(* stall: the delta time is cut down to a maximum *)
C13_DeltaClamped ==
  [][IsTick /\ (now' - now) \in SessionDeltas
       => /\ engine'.deltaTime < now' - now
          /\ engine'.gameTime - engine.gameTime < now' - now]_vars

-----------------------------------------------------------------------------
(* Properties of the numeric input *)

(* C14: an update with a deltaTime that is NaN or Infinity leaves the      *)
(* clock, the madness and the battery finite *)
C14_NonFiniteDeltaIsZero ==
  log.op = "updateNonFinite" => log.nonFinite = {}

-----------------------------------------------------------------------------
(* Properties of the clock *)

(* the simulation state: everything but the wall clock, the pending        *)
(* timers, the save slot and the record of the last step *)
simState == <<engine, player, story, enemies, active, inactive, soundEvents>>

(* the game is playing and not paused *)
Running == engine.isPlaying /\ ~engine.isPaused

(* the clock changes only in a tick made while Running or in one of the    *)
(* operations Starts that begin a session, it never decreases otherwise,   *)
(* and a frame that arrives while not Running changes no simulation state *)
ClockRule(Starts) ==
  /\ engine'.gameTime # engine.gameTime
       => (IsTick /\ Running) \/ log'.op \in Starts
  /\ log'.op \notin Starts => engine'.gameTime >= engine.gameTime
  /\ now' # now /\ ~Running => UNCHANGED simState

(* C15 as stated: a session begins with startNewGame only *)
C15_ClockOnlyInTicks == [][ClockRule({"startNewGame"})]_vars

(* C15: the clock changes only in ticks made while the game is playing and *)
(* not paused, or when a new game is started or a saved game is loaded; it *)
(* never decreases otherwise; a frame that arrives while the game is       *)
(* paused or not playing changes no simulation state *)
C15_ClockInTicksOrLoad == [][ClockRule({"startNewGame", "loadGame"})]_vars

(* a frame has arrived while the game was paused, after the clock had      *)
(* advanced *)
C15_Witness ==
  /\ log.op = "idleFrame"
  /\ engine.isPlaying /\ engine.isPaused
  /\ engine.gameTime > 0

-----------------------------------------------------------------------------
(* Properties of the enemy pool *)

(* the number of occurrences of x in seq *)
Count(seq, x) == Cardinality({i \in 1..Len(seq) : seq[i] = x})

(* C16: every instance of the current pool occurs exactly once in the      *)
(* active and inactive lists taken together, its isActive flag says in     *)
(* which, and the two lists hold nothing but the pool's instances *)
C16_PoolPartition ==
  /\ \A id \in PoolIds(gen) :
        /\ Count(active, id) + Count(inactive, id) = 1
        /\ enemies[id].isActive <=> Count(active, id) = 1
  /\ Len(active) + Len(inactive) = PoolSize

(* C17: at most maxActiveEnemies enemies are active *)
C17_ActiveAtMostMax == Len(active) <= maxActiveEnemies

(* a tick has run with maxActiveEnemies enemies active, every one of them  *)
(* updated at least once since it was spawned, an inactive instance left   *)
(* in the pool and spawn points near the player: the tick spawned nothing *)
C17_Witness ==
  /\ log.op = "tick"
  /\ Len(active) = maxActiveEnemies
  /\ Len(inactive) > 0
  /\ nearbySpawnPoints(player) # {}
  /\ \A i \in 1..Len(active) : enemies[active[i]].stateTimer > 0

(* C18: a tick whose spawnEnemy call finds the inactive list empty leaves  *)
(* the active and inactive lists as they were at the call, and goes on:    *)
(* the bodies are stepped, the story is updated and the clock has advanced *)
C18_EmptyPoolSpawnFails ==
  [][IsTick /\ log'.spawn = "null"
       => /\ log'.preSpawn[2] = <<>>
          /\ active' = log'.preSpawn[1]
          /\ inactive' = log'.preSpawn[2]
          /\ story'.storyProgress
               = Min(distressSignalTime + 1, story.storyProgress + (now' - now))
          /\ engine'.gameTime = engine.gameTime + (now' - now)]_vars

(* a tick has called spawnEnemy with every instance of the pool active *)
C18_Witness ==
  /\ log.op = "tick"
  /\ log.spawn = "null"
  /\ Len(active) = PoolSize
  /\ inactive = <<>>

-----------------------------------------------------------------------------
(* Properties of the collision filter *)

(* the category of a body: the ground plane and the static geometry are    *)
(* the world *)
Category(kind) ==
  CASE kind \in {"static", "ground"} -> "World"
    [] kind = "player" -> "Player"
    [] kind = "enemy" -> "Enemy"
    [] kind = "projectile" -> "Projectile"
    [] kind = "pickup" -> "Pickup"

(* the categories a body of a category collides with *)
CollidesWith(cat) ==
  CASE cat = "Player" -> {"World", "Enemy", "Pickup"}
    [] cat = "Enemy" -> {"World", "Player", "Projectile"}
    [] cat = "Projectile" -> {"World", "Enemy"}

(* C19: a player, enemy or projectile body passes the collision filter     *)
(* with another body exactly when the other body's category is one of      *)
(* those its own category collides with *)
C19_CollisionCategories ==
  log.op = "testPair"
  /\ Category(log.pair[1]) \in {"Player", "Enemy", "Projectile"}
    => (log.collides
          <=> Category(log.pair[2]) \in CollidesWith(Category(log.pair[1])))

-----------------------------------------------------------------------------
(* Properties of the movement *)

(* C20: the player is never sprinting and crouching at once, and a tick    *)
(* made with both keys held leaves the player crouching and not sprinting  *)
(* (updateMadness adds the sprint term exactly when isSprinting is set) *)
C20_SprintExcludesCrouch ==
  /\ ~(player.isSprinting /\ player.isCrouching)
  /\ log.op = "tick" /\ log.sprint /\ log.crouch /\ ~player.isDead
       => player.isCrouching /\ ~player.isSprinting

-----------------------------------------------------------------------------
(* Properties of the jump *)

(* C21: a tick gives the jump impulse only to a grounded player whose jump *)
(* key is down and has been seen up since the previous impulse: a key held *)
(* since a jump triggers no second jump *)
C21_JumpLatch ==
  [][IsTick /\ log'.jumped
       => player.isGrounded /\ log'.jump /\ ~log.held]_vars

(* a second jump: the key was seen up after a jump and the player jumps    *)
(* again *)
C21_Witness ==
  /\ log.op = "tick" /\ log.jumped
  /\ ~player.isGrounded
  /\ now > 7

(* C21 as stated: a tick gives the jump impulse only when the player is    *)
(* grounded and the jump key goes from up to down in that tick *)
C21_JumpOnRisingEdge ==
  [][IsTick /\ log'.jumped
       => player.isGrounded /\ log'.jump /\ ~log.jump]_vars

-----------------------------------------------------------------------------
(* Properties of the tick under failures *)

(* C22: in a tick in which the update of a subsystem throws, every         *)
(* subsystem after it still runs its update and checkGameState is still    *)
(* evaluated *)
C22_FailureIsolated ==
  log.op = "tick" /\ log.failed # "none"
    => /\ \A k \in 1..Len(Phases), j \in 1..Len(Phases) :
            Phases[k] = log.failed /\ j > k => Phases[j] \in log.ran
       /\ log.checked

-----------------------------------------------------------------------------
(* Properties of the projectiles *)

(* C23: after every tick, no projectile is registered whose lifetime has   *)
(* run out (projectileLifetime of game time since it was added) or that    *)
(* has had a contact with a World or Enemy body *)
C23_ProjectilesExpire ==
  log.op = "tick"
    => \A i \in 1..Len(projectiles) :
          /\ engine.gameTime - projectiles[i].addedAt < projectileLifetime
          /\ ~projectiles[i].contact

-----------------------------------------------------------------------------
(* Properties of a new game *)

(* C24: after startNewGame the player's vitals and weapon are at their     *)
(* initial values, the weapon is not reloading, the clock is 0, the game   *)
(* is playing and not paused, no enemy is active and there is no sound     *)
(* event *)
C24_NewGameResets ==
  log.op = "startNewGame"
    => /\ player.health = maxHealth /\ ~player.isDead
       /\ player.madness = 0 /\ player.battery = maxBattery
       /\ player.clip = clipSize /\ player.ammo = maxAmmo
       /\ ~player.isReloading
       /\ engine.gameTime = 0
       /\ engine.isPlaying /\ ~engine.isPaused
       /\ active = <<>> /\ soundEvents = <<>>

-----------------------------------------------------------------------------
(* Properties of the enemies under hits *)

(* C25: the health of every enemy instance is between 0 and the maximum    *)
(* health of its type *)
C25_EnemyHealthInRange ==
  \A id \in Instances :
     /\ 0 <= enemies[id].health
     /\ enemies[id].health <= enemyTypes[enemies[id].type].health

-----------------------------------------------------------------------------
(* Properties of the death of the player *)

DespawnTimersOf(tms, id) == {tm \in tms : tm.kind = "despawn" /\ tm.id = id}

(* C27: while an active enemy has health 0 or less, no step changes its AI *)
(* state or its position unless it despawns it, no tick has it apply       *)
(* damage, and no step adds a despawn timer for it *)
C27_DyingIsTerminal ==
  [][\A id \in Instances :
       enemies[id].health <= 0 /\ enemies[id].isActive
         => /\ enemies'[id].isActive
                 => /\ enemies'[id].state = enemies[id].state
                    /\ enemies'[id].pos = enemies[id].pos
            /\ IsTick => \A i \in 1..Len(log'.hits) : log'.hits[i] # id
            /\ DespawnTimersOf(timers', id) \subseteq DespawnTimersOf(timers, id)
    ]_vars

-----------------------------------------------------------------------------
(* Properties of the AI state machine *)

(* the enemy instances that are active before and after the step and       *)
(* whose AI state the step changes *)
Changed ==
  {id \in Instances : /\ enemies[id].isActive /\ enemies'[id].isActive
                      /\ enemies'[id].state # enemies[id].state}

(* the change of the AI state of id is one of the ten transitions, under   *)
(* its condition: what the enemy sees, hears and measures in the tick from *)
(* its position before the tick *)
Listed(id) ==
  LET e == enemies[id]
      tr == <<e.state, enemies'[id].state>>
      see == canEnemySeePlayer(e, player')
      hear == canEnemyHearPlayer(e, soundEvents', now')
      dist == Dist(e.pos, player'.pos)
      cfg == enemyTypes[e.type]
  IN CASE tr = <<"idle", "investigate">> -> see \/ hear
       [] tr = <<"idle", "patrol">> -> TRUE
       [] tr = <<"patrol", "chase">> -> see
       [] tr = <<"patrol", "investigate">> -> hear /\ ~see
       [] tr = <<"investigate", "chase">> -> see
       [] tr = <<"investigate", "attack">> -> dist < cfg.attackRange
       [] tr = <<"investigate", "patrol">> ->
            e.stateTimer + (now' - now) > investigateTimeout
       [] tr = <<"chase", "investigate">> ->
            ~see /\ ~hear /\ dist > loseInterestDistance
       [] tr = <<"chase", "attack">> -> dist < cfg.attackRange
       [] tr = <<"attack", "chase">> -> dist > cfg.leaveRange
       [] OTHER -> FALSE

(* the change of the AI state of id is the return from patrol to idle      *)
(* after the patrol timeout *)
PatrolEnds(id) ==
  /\ enemies[id].state = "patrol" /\ enemies'[id].state = "idle"
  /\ enemies[id].stateTimer + (now' - now) > patrolTimeout

-----------------------------------------------------------------------------
(* Properties of the investigate timeout *)

(* C29: an enemy that entered investigate in the previous step, and in     *)
(* this tick neither sees the player nor is within attack range, returns   *)
(* to patrol in this tick exactly when the tick, which is all the time it  *)
(* has spent in investigate, is longer than the 5 s timeout: the timeout   *)
(* is measured from the entry, whatever the state timer was at entry *)
C29_TimeoutFromEntry ==
  [][IsTick =>
       \A id \in log.entered :
          LET e == enemies[id]
          IN (/\ e.isActive /\ enemies'[id].isActive
              /\ e.isAlive
              /\ e.state = "investigate"
              /\ ~canEnemySeePlayer(e, player')
              /\ Dist(e.pos, player'.pos) >= enemyTypes[e.type].attackRange)
             => (enemies'[id].state = "patrol"
                   <=> now' - now > investigateTimeout)]_vars

-----------------------------------------------------------------------------
(* Properties of the attack cooldown *)

(* C30: an enemy that stays in attack, within 1.5 x attackRange of the     *)
(* player, never goes more than attackCooldown plus one tick without a     *)
(* damage application: log.waited is the time of the consecutive ticks it  *)
(* has spent in attack since it entered the state or last applied damage *)
C30_AttackWaitBounded ==
  \A id \in DOMAIN log.waited :
     log.waited[id] <= attackCooldown + engine.deltaTime

-----------------------------------------------------------------------------
(* Properties of the hysteresis between attack and chase *)

(* C31: in a tick an enemy enters attack only with the player nearer than  *)
(* attackRange and leaves attack for chase only with the player farther    *)
(* than 1.5 x attackRange; an enemy in attack or chase that measures a     *)
(* distance between the two keeps its state *)
C31_Hysteresis ==
  [][IsTick =>
       \A id \in Instances :
          LET e == enemies[id]
              f == enemies'[id]
              dist == Dist(e.pos, player'.pos)
              range == enemyTypes[e.type].attackRange
          IN (e.isActive /\ f.isActive /\ e.isAlive) =>
               /\ (e.state # "attack" /\ f.state = "attack") => dist < range
               /\ (e.state = "attack" /\ f.state = "chase") =>
                     2 * dist > 3 * range
               /\ (e.state \in {"attack", "chase"} /\ InBand(e, player')) =>
                     f.state = e.state]_vars

(* the last tick measured a distance in the band for an enemy in attack    *)
(* and for an enemy in chase, and each kept its state *)
C31_Witness ==
  /\ log.op = "tick"
  /\ \E id \in log.band : enemies[id].state = "attack"
  /\ \E id \in log.band : enemies[id].state = "chase"

-----------------------------------------------------------------------------
(* Properties of the emission of a sound event *)

(* the enemy id is active and strictly inside the radius of the event snd *)
Alerted(id, snd) ==
  /\ IsActive(id)
  /\ Dist(enemies[id].pos, snd.pos) < snd.volume * volumeRange

(* C32: detectionLevel is within [0, 1] in every state; an emission puts   *)
(* the event at the end of the bus, raises the detectionLevel of every     *)
(* active enemy strictly inside the radius (up to 1), moves it to          *)
(* investigate at the event's position iff it is idle, and changes nothing *)
(* else of any enemy *)
C32_EmitAlerts ==
  /\ [](\A id \in Ids : /\ 0 <= enemies[id].detectionLevel
                         /\ enemies[id].detectionLevel <= 1000)
  /\ [][log'.op = "emit" =>
         LET snd == log'.sound
         IN /\ Len(soundEvents') > 0
            /\ soundEvents'[Len(soundEvents')] =
                  [pos |-> snd.pos, volume |-> snd.volume, timestamp |-> now]
            /\ SubSeq(soundEvents', 1, Len(soundEvents') - 1) =
                  IF Len(soundEvents) < maxSoundEvents THEN soundEvents
                  ELSE Tail(soundEvents)
            /\ \A id \in Ids :
                  LET e == enemies[id]
                      f == enemies'[id]
                  IN IF Alerted(id, snd)
                     THEN /\ f.detectionLevel > e.detectionLevel
                               \/ f.detectionLevel = 1000
                          /\ f.detectionLevel >= e.detectionLevel
                          /\ f = [e EXCEPT
                                   !.detectionLevel = f.detectionLevel,
                                   !.state = IF e.state = "idle"
                                             THEN "investigate" ELSE @,
                                   !.investigationPoint =
                                      IF e.state = "idle" THEN snd.pos ELSE @]
                     ELSE f = e]_vars

(* an emission has just left one active enemy at detectionLevel 1,         *)
(* investigating the event's position, and another one untouched *)
C32_Witness ==
  /\ log.op = "emit"
  /\ \E id \in Ids :
        /\ IsActive(id)
        /\ enemies[id].detectionLevel = 1000
        /\ enemies[id].state = "investigate"
        /\ enemies[id].investigationPoint = log.sound.pos
  /\ \E id \in Ids :
        /\ IsActive(id)
        /\ enemies[id].detectionLevel = 0

-----------------------------------------------------------------------------
(* Properties of despawning *)

(* C33: an active enemy of the pool that has died (its health is 0 or      *)
(* less), early enough for the post-death delay to end within the time     *)
(* modelled, is eventually not active and in the inactive pool; and after  *)
(* every tick every active enemy is within despawnDistance of the player *)
C33_Despawned ==
  /\ \A id \in PoolIds(0) :
        (IsActive(id) /\ enemies[id].health <= 0
           /\ now + deathDelay <= DespawnTime)
        ~> (~IsActive(id) /\ ~enemies[id].isActive
              /\ \E i \in 1..Len(inactive) : inactive[i] = id)
  /\ [](log.op = "tick" =>
          \A id \in Ids :
             IsActive(id) =>
                Dist(enemies[id].pos, player.pos) <= despawnDistance)

(* a tick has despawned a living enemy that was beyond the despawn         *)
(* distance, and an enemy that died is back in the inactive pool with no   *)
(* despawn timer left *)
C33_Witness ==
  /\ log.op = "tick"
  /\ \E id \in Ids :
        /\ enemies[id].type # "none" /\ ~enemies[id].isActive
        /\ enemies[id].health > 0
        /\ Dist(enemies[id].pos, player.pos) > despawnDistance
        /\ \E i \in 1..Len(inactive) : inactive[i] = id
  /\ \E id \in Ids :
        /\ enemies[id].type # "none" /\ ~enemies[id].isActive
        /\ enemies[id].health <= 0
        /\ DespawnTimersOf(timers, id) = {}
        /\ \E i \in 1..Len(inactive) : inactive[i] = id

-----------------------------------------------------------------------------
(* Properties of the ammunition *)

(* the rounds in the clip and in the reserve *)
Rounds(p) == p.clip + p.ammo

-----------------------------------------------------------------------------
(* Properties of spawning *)

(* C35: an enemy that a tick activates is alive after the tick, with the   *)
(* maximum health of its type, detectionLevel 0 and state patrol *)
C35_SpawnIsFresh ==
  [][IsTick =>
       \A id \in Ids :
          (~enemies[id].isActive /\ enemies'[id].isActive)
            => /\ enemies'[id].isAlive
               /\ enemies'[id].health = enemyTypes[enemies'[id].type].health
               /\ enemies'[id].detectionLevel = 0
               /\ enemies'[id].state = "patrol"]_vars

-----------------------------------------------------------------------------
(* Properties of the delayed despawn *)

(* C36: a despawn timer deactivates only an enemy that is in the life in   *)
(* which it died (its health is 0 or less: spawnEnemy restores the health) *)
(* and adds to the inactive pool only an instance of the current pool that *)
(* was active *)
C36_TimerOwnLife ==
  [][log'.op = "despawnTimer" =>
       \A id \in Ids :
          /\ (enemies[id].isActive /\ ~enemies'[id].isActive)
                => enemies[id].health <= 0
          /\ Count(inactive', id) > Count(inactive, id)
                => id \in PoolIds(gen) /\ Count(active, id) > 0]_vars

-----------------------------------------------------------------------------
(* Properties of the delayed game over *)

(* C37: a delayed gameOver runs only while the game is still playing (the  *)
(* game has not been ended before in the session) and only in the session  *)
(* in which it was scheduled *)
C37_GameOverOnceOwnSession ==
  [][log'.op = "gameOverTimer" =>
       /\ engine.isPlaying
       /\ \A tm \in timers \ timers' : tm.id = gen]_vars

-----------------------------------------------------------------------------
(* Properties of pausing *)

(* C38: while a pause made by the user has not been followed by a resume   *)
(* of the user (only frames and timeouts have run since), the game is      *)
(* paused; and the delayed resume of a cutscene leaves the game paused     *)
(* while the resume of another cutscene is still pending *)
C38_PausedUntilResume ==
  /\ [](log.userPaused => engine.isPaused)
  /\ [][(log'.op = "resumeTimer" /\ \E tm \in timers' : tm.kind = "resume")
         => engine'.isPaused]_vars

-----------------------------------------------------------------------------
(* Properties of the timers *)

(* the fire cooldown of handleShooting has run out at time t *)
CooldownOver(p, t) == t - p.lastFired >= fireRate

(* C39: the reload timer, the fire cooldown and the memory of sound events *)
(* advance only in ticks: a tick that finishes a reload comes at least     *)
(* reloadTime of simulated time after the tick that started it, and a      *)
(* frame without a tick changes neither whether the fire cooldown has run  *)
(* out (once a round has been fired) nor what an enemy's hearing test      *)
(* answers *)
C39_TimersOnSimulatedTime ==
  /\ [][log'.op = "tick" /\ player.isReloading /\ ~player'.isReloading
         => engine'.gameTime - log.reloadGameTime >= reloadTime]_vars
  /\ [][log'.op = "idleFrame"
         => /\ player.lastFired > 0
                  => CooldownOver(player', now') = CooldownOver(player, now)
            /\ \A id \in PoolIds(gen) :
                  canEnemyHearPlayer(enemies'[id], soundEvents', now')
                    = canEnemyHearPlayer(enemies[id], soundEvents, now)]_vars

-----------------------------------------------------------------------------
(* Properties of loading after a death *)

(* C40: right after loadGame has restored a player with health above 0,    *)
(* the player is not dead; and a tick that follows the load and leaves the *)
(* player with health above 0 does not end the game with the death ending *)
C40_LoadedPlayerAlive ==
  /\ [](log.op = "loadGame" /\ player.health > 0 => ~player.isDead)
  /\ [][(/\ log.op = "loadGame" /\ player.health > 0
          /\ log'.op = "tick" /\ player'.health > 0)
         => log'.ending # "death"]_vars

====
